---- MODULE Spec2Model ----
(***************************************************************************)
(* Cart Aggregation Engine of the cake-ordering storefront.                *)
(*                                                                         *)
(* The model follows one call of cartAdd (the service function) into the   *)
(* stored procedure functional.spCartAdd.  A SQL statement of the          *)
(* procedure that reads or writes a table other steps write is one atomic  *)
(* step; several calls run concurrently on separate                        *)
(* connections (processes), as the connection pool of utils/database       *)
(* allows.  The store is READ COMMITTED: an uncommitted INSERT/UPDATE is   *)
(* held by its transaction (pending) and becomes visible at COMMIT.        *)
(***************************************************************************)
EXTENDS Integers, FiniteSets, Sequences, TLC

(***************************************************************************)
(* Bounds of the model.                                                    *)
(***************************************************************************)
\* number of cartAdd calls issued in one behaviour
MaxCalls == 2

(***************************************************************************)
(* Program constants.                                                      *)
(***************************************************************************)
\* IF (@quantity IS NULL OR @quantity < 1 OR @quantity > 10)
MinQuantity == 1
MaxQuantity == 10
\* ;THROW 51000, '...', 1
BusinessErrorNumber == 51000

\* SQL NULL of a numeric column or parameter (outside every id/quantity/price)
NULL == 0 - 1
\* SQL NULL of the NVARCHAR notes column / parameter
NullNotes == "<NULL>"
\* a notes property absent from the request object (TypeScript undefined)
Undefined == "<undefined>"

\* connections on which calls run concurrently
Procs == {"p1", "p2"}

(***************************************************************************)
(* Catalog store (read-only for the cart engine).  Flags are fixed; prices *)
(* are edited by catalog management while calls are running.               *)
(***************************************************************************)
Accounts == {1, 2}
Users == {1}
Products == 1 .. 5
Flavors == {1, 2}
Sizes == {1, 2, 3}

\* functional.product rows, by idProduct
InitialProduct ==
  [id \in Products |->
     [idAccount        |-> IF id = 5 THEN 2 ELSE 1,
      deleted          |-> IF id = 4 THEN 1 ELSE 0,
      active           |-> IF id = 2 THEN 0 ELSE 1,
      available        |-> IF id = 3 THEN 0 ELSE 1,
      basePrice        |-> IF id = 5 THEN 20 ELSE 10,
      promotionalPrice |-> NULL]]

\* functional.productFlavor rows
ProductFlavorRows ==
  { [idAccount |-> 1, idProduct |-> 1, idFlavor |-> 1, available |-> 1],
    [idAccount |-> 1, idProduct |-> 1, idFlavor |-> 2, available |-> 0],
    [idAccount |-> 1, idProduct |-> 2, idFlavor |-> 1, available |-> 1],
    [idAccount |-> 1, idProduct |-> 3, idFlavor |-> 1, available |-> 1],
    [idAccount |-> 1, idProduct |-> 4, idFlavor |-> 1, available |-> 1],
    [idAccount |-> 2, idProduct |-> 5, idFlavor |-> 1, available |-> 1] }

\* functional.productSize rows
ProductSizeRows ==
  { [idAccount |-> 1, idProduct |-> 1, idSize |-> 1, available |-> 1],
    [idAccount |-> 1, idProduct |-> 1, idSize |-> 2, available |-> 1],
    [idAccount |-> 1, idProduct |-> 1, idSize |-> 3, available |-> 0],
    [idAccount |-> 1, idProduct |-> 2, idSize |-> 1, available |-> 1],
    [idAccount |-> 1, idProduct |-> 3, idSize |-> 1, available |-> 1],
    [idAccount |-> 1, idProduct |-> 4, idSize |-> 1, available |-> 1],
    [idAccount |-> 2, idProduct |-> 5, idSize |-> 1, available |-> 1] }

\* functional.size rows: priceModifier by <<idAccount, idSize>>
InitialSize ==
  [k \in Accounts \X Sizes |-> [priceModifier |-> IF k[2] = 2 THEN 5 ELSE 0]]

\* catalog management puts a product on promotion at this price
PromotionalPrices == {8}
\* the products whose price is edited while calls run
EditedProducts == {1}

VARIABLES
  product,          \* functional.product
  productFlavor,    \* functional.productFlavor
  productSize,      \* functional.productSize
  size,             \* functional.size
  uniqueKey,        \* whether functional.cart declares the line key UNIQUE
  cart,             \* functional.cart: the committed rows
  identity,         \* next IDENTITY value of functional.cart.idCart
  pc,               \* position of each connection's call
  args,             \* parameters of the running call, as cartAdd received them
  basePrice,        \* @basePrice
  priceModifier,    \* @priceModifier
  idCart,           \* @idCart
  existingQuantity, \* @existingQuantity
  pending,          \* the row written inside the open transaction, not yet committed
  result,           \* what the call returned or raised
  lineAtStart,      \* history: the committed rows of the call's key when it began
  touched,          \* history: whether the call has changed a committed row
  calls,            \* number of calls issued
  confectioner,     \* functional.confectioner
  category,         \* functional.category
  recordsets,       \* the result sets the running procedure has sent so far
  flavor,           \* functional.flavor
  review            \* functional.review

catalogVars == <<product, productFlavor, productSize, size, uniqueKey>>
localVars == <<basePrice, priceModifier, idCart, existingQuantity, pending>>
historyVars == <<lineAtStart, touched, calls>>
queryVars == <<confectioner, category, recordsets, flavor, review>>
vars == <<product, productFlavor, productSize, size, uniqueKey, cart, identity,
          pc, args, basePrice, priceModifier, idCart, existingQuantity, pending,
          result, lineAtStart, touched, calls, confectioner, category, recordsets,
          flavor, review>>

NoArgs == [idAccount |-> NULL, idUser |-> NULL, idProduct |-> NULL, idFlavor |-> NULL,
           idSize |-> NULL, quantity |-> NULL, notes |-> Undefined]
NoRow == [idCart |-> NULL]
NoResult == [status |-> "none"]

(***************************************************************************)
(* Requests.  CallParams is what callers hand to cartAdd: requests that    *)
(* pass every precondition (two quantities for the line of account 1, each *)
(* kind of notes, one line of account 2), plus one request per way a       *)
(* precondition can be broken.                                             *)
(***************************************************************************)
Quantities == {2, 8}
Notes == {Undefined, "", "n1"}

AcceptedParams ==
  [idAccount : {1}, idUser : Users, idProduct : {1}, idFlavor : {1},
   idSize : {1}, quantity : Quantities, notes : {Undefined}]
  \cup
  [idAccount : {1}, idUser : Users, idProduct : {1}, idFlavor : {1},
   idSize : {1}, quantity : {2}, notes : Notes]
  \cup
  [idAccount : {2}, idUser : Users, idProduct : {5}, idFlavor : {1},
   idSize : {1}, quantity : {5}, notes : {Undefined}]

BaseParams == [idAccount |-> 1, idUser |-> 1, idProduct |-> 1, idFlavor |-> 1,
               idSize |-> 1, quantity |-> 5, notes |-> Undefined]
OtherTenantParams == [BaseParams EXCEPT !.idAccount = 2, !.idProduct = 5]

RejectedParams ==
  { [BaseParams EXCEPT !.idAccount = NULL],
    [BaseParams EXCEPT !.idUser = NULL],
    [BaseParams EXCEPT !.idProduct = NULL],
    [BaseParams EXCEPT !.idFlavor = NULL],
    [BaseParams EXCEPT !.idSize = NULL],
    [BaseParams EXCEPT !.idAccount = 2],
    [BaseParams EXCEPT !.idFlavor = 2],
    [BaseParams EXCEPT !.idSize = 3],
    [OtherTenantParams EXCEPT !.idFlavor = 2],
    [OtherTenantParams EXCEPT !.idSize = 2] }
  \cup { [BaseParams EXCEPT !.quantity = q] : q \in {NULL, 0, 11} }
  \cup { [BaseParams EXCEPT !.idProduct = id] : id \in {2, 3, 4, 5} }

CallParams == AcceptedParams \cup RejectedParams

(***************************************************************************)
(* cartAdd (TypeScript): the parameter object handed to the procedure.     *)
(***************************************************************************)
\* notes: params.notes || null  -- undefined and '' are both falsy
NotesParameter(notes) ==
  IF notes = Undefined \/ notes = "" THEN NullNotes ELSE notes

cartAdd(params) == [params EXCEPT !.notes = NotesParameter(params.notes)]

(***************************************************************************)
(* spCartAdd: parameter validation and catalog preconditions.              *)
(***************************************************************************)
NoError == "ok"

\* IF (@quantity IS NULL OR @quantity < 1 OR @quantity > 10)
InvalidQuantity(quantity) ==
  quantity = NULL \/ quantity < MinQuantity \/ quantity > MaxQuantity

\* the IF (@x IS NULL) THROW chain, in source order
ParameterError(a) ==
  IF a.idAccount = NULL THEN "idAccountRequired"
  ELSE IF a.idUser = NULL THEN "idUserRequired"
  ELSE IF a.idProduct = NULL THEN "idProductRequired"
  ELSE IF a.idFlavor = NULL THEN "flavorRequired"
  ELSE IF a.idSize = NULL THEN "sizeRequired"
  ELSE IF InvalidQuantity(a.quantity) THEN "invalidQuantity"
  ELSE NoError

\* variant of the product check that does not look at the active flag
ProductAvailable_IgnoresActive(a) ==
  \E id \in DOMAIN product :
    /\ id = a.idProduct
    /\ product[id].idAccount = a.idAccount
    /\ product[id].deleted = 0
    /\ product[id].available = 1

\* EXISTS (SELECT 1 FROM product WHERE idProduct, idAccount, deleted = 0, active = 1, available = 1)
ProductAvailable(a) ==
  \E id \in DOMAIN product :
    /\ id = a.idProduct
    /\ product[id].idAccount = a.idAccount
    /\ product[id].deleted = 0
    /\ product[id].active = 1
    /\ product[id].available = 1

\* EXISTS (SELECT 1 FROM productFlavor WHERE idAccount, idProduct, idFlavor, available = 1)
FlavorAvailable(a) ==
  \E r \in productFlavor :
    /\ r.idAccount = a.idAccount
    /\ r.idProduct = a.idProduct
    /\ r.idFlavor = a.idFlavor
    /\ r.available = 1

\* EXISTS (SELECT 1 FROM productSize WHERE idAccount, idProduct, idSize, available = 1)
SizeAvailable(a) ==
  \E r \in productSize :
    /\ r.idAccount = a.idAccount
    /\ r.idProduct = a.idProduct
    /\ r.idSize = a.idSize
    /\ r.available = 1

\* the first THROW the procedure reaches before it opens its transaction
ValidationError(a) ==
  IF ParameterError(a) # NoError THEN ParameterError(a)
  ELSE IF ~ProductAvailable(a) THEN "productNotAvailable"
  ELSE IF ~FlavorAvailable(a) THEN "flavorNotAvailable"
  ELSE IF ~SizeAvailable(a) THEN "sizeNotAvailable"
  ELSE NoError

Raised(number, message) == [status |-> "error", number |-> number, message |-> message]

(***************************************************************************)
(* spCartAdd: pricing and the cart line.                                   *)
(***************************************************************************)
\* ISNULL([prd].[promotionalPrice], [prd].[basePrice])
EffectivePrice(prd) ==
  IF prd.promotionalPrice = NULL THEN prd.basePrice ELSE prd.promotionalPrice

\* SET @unitPrice = @basePrice + @priceModifier
UnitPrice(p) == basePrice[p] + priceModifier[p]

\* WHERE idAccount = @idAccount AND idUser = @idUser AND idProduct = @idProduct
\*   AND idFlavor = @idFlavor AND idSize = @idSize
SameKey(r, a) ==
  /\ r.idAccount = a.idAccount
  /\ r.idUser = a.idUser
  /\ r.idProduct = a.idProduct
  /\ r.idFlavor = a.idFlavor
  /\ r.idSize = a.idSize

Lines(a) == { r \in cart : SameKey(r, a) }

\* what the history keeps of the rows of a key
Snapshot(rows) == { [idCart |-> r.idCart, quantity |-> r.quantity] : r \in rows }

\* variant of the ceiling test that lets every merged quantity through
QuantityExceedsLimit_Never(newQuantity) == FALSE

\* variant of the ceiling test that already refuses a merge reaching the ceiling
QuantityExceedsLimit_AtCeiling(newQuantity) == newQuantity >= MaxQuantity

\* IF (@newQuantity > 10)
QuantityExceedsLimit(newQuantity) == newQuantity > MaxQuantity

\* ISNULL(@notes, [notes])
MergedNotes(notes, old) == IF notes = NullNotes THEN old ELSE notes

\* variant of the UPDATE that adds the added units' price to the stored total
UpdatedRow_SumsTotals(row, newQuantity, unitPrice, notes) ==
  [row EXCEPT !.quantity = newQuantity,
              !.totalPrice = row.totalPrice + unitPrice * (newQuantity - row.quantity),
              !.notes = MergedNotes(notes, row.notes)]

\* UPDATE cart SET quantity, totalPrice, notes WHERE idCart = @idCart
UpdatedRow(row, newQuantity, unitPrice, notes) ==
  [row EXCEPT !.quantity = newQuantity,
              !.totalPrice = unitPrice * newQuantity,
              !.notes = MergedNotes(notes, row.notes)]

\* INSERT INTO cart (...) VALUES (...)
InsertedRow(id, a, unitPrice) ==
  [idCart |-> id, idAccount |-> a.idAccount, idUser |-> a.idUser,
   idProduct |-> a.idProduct, idFlavor |-> a.idFlavor, idSize |-> a.idSize,
   quantity |-> a.quantity, unitPrice |-> unitPrice,
   totalPrice |-> unitPrice * a.quantity, notes |-> a.notes]

(***************************************************************************)
(* Initial state: the catalog as above, no call running, and a cart that   *)
(* is empty or holds the one line an earlier cartAdd of 2 units left.      *)
(* The DDL of functional.cart is not part of the sources at hand: both     *)
(* schemas, with and without a UNIQUE key on the line key, are covered.    *)
(***************************************************************************)
EarlierLine ==
  [idCart |-> 1, idAccount |-> 1, idUser |-> 1, idProduct |-> 1, idFlavor |-> 1,
   idSize |-> 1, quantity |-> 2, unitPrice |-> 10, totalPrice |-> 20,
   notes |-> NullNotes]

InitialCarts == { {}, {EarlierLine} }

Init ==
  /\ product = InitialProduct
  /\ productFlavor = ProductFlavorRows
  /\ productSize = ProductSizeRows
  /\ size = InitialSize
  /\ uniqueKey \in BOOLEAN
  /\ cart \in InitialCarts
  /\ identity = Cardinality(cart) + 1
  /\ pc = [p \in Procs |-> "idle"]
  /\ args = [p \in Procs |-> NoArgs]
  /\ basePrice = [p \in Procs |-> NULL]
  /\ priceModifier = [p \in Procs |-> NULL]
  /\ idCart = [p \in Procs |-> NULL]
  /\ existingQuantity = [p \in Procs |-> NULL]
  /\ pending = [p \in Procs |-> NoRow]
  /\ result = [p \in Procs |-> NoResult]
  /\ lineAtStart = [p \in Procs |-> {}]
  /\ touched = [p \in Procs |-> FALSE]
  /\ calls = 0
  /\ confectioner = {}
  /\ category = {}
  /\ recordsets = [p \in Procs |-> <<>>]
  /\ flavor = {}
  /\ review = {}

(***************************************************************************)
(* Catalog management (outside the cart engine) edits a product's price.   *)
(***************************************************************************)
SetPromotionalPrice(id, price) ==
  /\ product[id].promotionalPrice # price
  /\ product' = [product EXCEPT ![id].promotionalPrice = price]
  /\ UNCHANGED <<productFlavor, productSize, size, uniqueKey, cart, identity, pc, args,
                 localVars, result, historyVars>>
  /\ UNCHANGED queryVars

(***************************************************************************)
(* One call.  pc: idle -> price -> lookup -> tran -> written -> committed   *)
(*            -> done -> idle, or -> done from any THROW.                  *)
(* A statement that reads only rows no step of the model writes is taken   *)
(* together with the statement before it.                                  *)
(***************************************************************************)
\* cartAdd is invoked; the procedure runs its IF ... THROW checks (lines 65-162).
\* The three EXISTS checks read catalog flags, which no step changes, so the
\* checks are taken together with the parameter checks.
Rejected(p, params) ==
  /\ pc[p] = "idle"
  /\ calls < MaxCalls
  /\ ValidationError(cartAdd(params)) # NoError
  /\ args' = [args EXCEPT ![p] = params]
  /\ result' = [result EXCEPT ![p] =
                  Raised(BusinessErrorNumber, ValidationError(cartAdd(params)))]
  /\ pc' = [pc EXCEPT ![p] = "done"]
  /\ calls' = calls + 1
  /\ UNCHANGED <<catalogVars, cart, identity, localVars, lineAtStart, touched>>
  /\ UNCHANGED queryVars

Accepted(p, params) ==
  /\ pc[p] = "idle"
  /\ calls < MaxCalls
  /\ ValidationError(cartAdd(params)) = NoError
  /\ args' = [args EXCEPT ![p] = params]
  /\ pc' = [pc EXCEPT ![p] = "price"]
  /\ lineAtStart' = [lineAtStart EXCEPT ![p] = Snapshot(Lines(params))]
  /\ calls' = calls + 1
  /\ UNCHANGED <<catalogVars, cart, identity, localVars, result, touched>>
  /\ UNCHANGED queryVars

\* SELECT @basePrice = ISNULL(promotionalPrice, basePrice) FROM product WHERE ...
\* SELECT @priceModifier = priceModifier FROM size WHERE idSize, idAccount
ReadPrices(p) ==
  /\ pc[p] = "price"
  /\ \E id \in DOMAIN product :
       /\ id = args[p].idProduct
       /\ product[id].idAccount = args[p].idAccount
       /\ basePrice' = [basePrice EXCEPT ![p] = EffectivePrice(product[id])]
  /\ priceModifier' = [priceModifier EXCEPT ![p] =
                         size[<<args[p].idAccount, args[p].idSize>>].priceModifier]
  /\ pc' = [pc EXCEPT ![p] = "lookup"]
  /\ UNCHANGED <<catalogVars, cart, identity, args, idCart, existingQuantity, pending,
                 result, historyVars>>
  /\ UNCHANGED queryVars

\* SELECT @idCart = idCart, @existingQuantity = quantity FROM cart WHERE <key>
\* (no row: both stay NULL; several rows: the variables take one of them)
LookupMissed(p) ==
  /\ pc[p] = "lookup"
  /\ Lines(args[p]) = {}
  /\ pc' = [pc EXCEPT ![p] = "tran"]
  /\ UNCHANGED <<catalogVars, cart, identity, args, localVars, result, historyVars>>
  /\ UNCHANGED queryVars

LookupFound(p) ==
  /\ pc[p] = "lookup"
  /\ \E r \in Lines(args[p]) :
       /\ idCart' = [idCart EXCEPT ![p] = r.idCart]
       /\ existingQuantity' = [existingQuantity EXCEPT ![p] = r.quantity]
  /\ pc' = [pc EXCEPT ![p] = "tran"]
  /\ UNCHANGED <<catalogVars, cart, identity, args, basePrice, priceModifier, pending,
                 result, historyVars>>
  /\ UNCHANGED queryVars

\* BEGIN TRAN; IF (@newQuantity > 10) THROW -> CATCH: ROLLBACK TRAN; THROW
ThrowQuantityExceedsLimit(p) ==
  /\ pc[p] = "tran"
  /\ idCart[p] # NULL
  /\ QuantityExceedsLimit(existingQuantity[p] + args[p].quantity)
  /\ result' = [result EXCEPT ![p] = Raised(BusinessErrorNumber, "quantityExceedsLimit")]
  /\ pc' = [pc EXCEPT ![p] = "done"]
  /\ UNCHANGED <<catalogVars, cart, identity, args, localVars, historyVars>>
  /\ UNCHANGED queryVars

\* BEGIN TRAN; UPDATE cart SET ... WHERE idCart = @idCart
\* (waits while another transaction holds an uncommitted write of that row)
Update(p) ==
  /\ pc[p] = "tran"
  /\ idCart[p] # NULL
  /\ ~QuantityExceedsLimit(existingQuantity[p] + args[p].quantity)
  /\ \A q \in Procs : pending[q].idCart # idCart[p]
  /\ \E row \in cart :
       /\ row.idCart = idCart[p]
       /\ pending' = [pending EXCEPT ![p] =
                        UpdatedRow(row, existingQuantity[p] + args[p].quantity,
                                   UnitPrice(p), cartAdd(args[p]).notes)]
  /\ pc' = [pc EXCEPT ![p] = "written"]
  /\ UNCHANGED <<catalogVars, cart, identity, args, basePrice, priceModifier, idCart,
                 existingQuantity, result, historyVars>>
  /\ UNCHANGED queryVars

\* a UNIQUE key makes the INSERT wait for an uncommitted row of the same key
InsertBlocked(p) ==
  uniqueKey /\ \E q \in Procs : pending[q] # NoRow /\ SameKey(pending[q], args[p])

\* BEGIN TRAN; INSERT INTO cart (...); SET @idCart = SCOPE_IDENTITY()
Insert(p) ==
  /\ pc[p] = "tran"
  /\ idCart[p] = NULL
  /\ ~InsertBlocked(p)
  /\ ~(uniqueKey /\ Lines(args[p]) # {})
  /\ pending' = [pending EXCEPT ![p] = InsertedRow(identity, cartAdd(args[p]), UnitPrice(p))]
  /\ idCart' = [idCart EXCEPT ![p] = identity]
  /\ identity' = identity + 1
  /\ pc' = [pc EXCEPT ![p] = "written"]
  /\ UNCHANGED <<catalogVars, cart, args, basePrice, priceModifier, existingQuantity,
                 result, historyVars>>
  /\ UNCHANGED queryVars

\* the INSERT violates the UNIQUE key (error 2627) -> CATCH: ROLLBACK TRAN; THROW
InsertDuplicateKey(p) ==
  /\ pc[p] = "tran"
  /\ idCart[p] = NULL
  /\ ~InsertBlocked(p)
  /\ uniqueKey /\ Lines(args[p]) # {}
  /\ identity' = identity + 1
  /\ result' = [result EXCEPT ![p] = Raised(2627, "duplicateKey")]
  /\ pc' = [pc EXCEPT ![p] = "done"]
  /\ UNCHANGED <<catalogVars, cart, args, localVars, historyVars>>
  /\ UNCHANGED queryVars

\* variant of the write that changes every line of the written line's product
Committed_WholeProduct(rows, row) ==
  { IF r.idProduct = row.idProduct
    THEN [r EXCEPT !.quantity = row.quantity, !.totalPrice = r.unitPrice * row.quantity]
    ELSE r : r \in { x \in rows : x.idCart # row.idCart } } \cup {row}

\* the rows of the table once the transaction's write is committed
Committed(rows, row) == { r \in rows : r.idCart # row.idCart } \cup {row}

\* variant of the CATCH block that leaves the transaction's write in place
RolledBack_WriteKept(rows, row) == Committed(rows, row)

\* CATCH: ROLLBACK TRAN -- the transaction's write is discarded
RolledBack(rows, row) == rows

\* COMMIT TRAN
Commit(p) ==
  /\ pc[p] = "written"
  /\ cart' = Committed(cart, pending[p])
  /\ pending' = [pending EXCEPT ![p] = NoRow]
  /\ touched' = [touched EXCEPT ![p] = touched[p] \/ cart' # cart]
  /\ pc' = [pc EXCEPT ![p] = "committed"]
  /\ UNCHANGED <<catalogVars, identity, args, basePrice, priceModifier, idCart,
                 existingQuantity, result, lineAtStart, calls>>
  /\ UNCHANGED queryVars

\* the store fails inside the transaction (deadlock victim, timeout, ...)
\* -> CATCH: ROLLBACK TRAN; THROW
StoreFailure(p) ==
  /\ pc[p] = "written"
  /\ cart' = RolledBack(cart, pending[p])
  /\ pending' = [pending EXCEPT ![p] = NoRow]
  /\ touched' = [touched EXCEPT ![p] = touched[p] \/ cart' # cart]
  /\ result' = [result EXCEPT ![p] = Raised(1205, "deadlock")]
  /\ pc' = [pc EXCEPT ![p] = "done"]
  /\ UNCHANGED <<catalogVars, identity, args, basePrice, priceModifier, idCart,
                 existingQuantity, lineAtStart, calls>>
  /\ UNCHANGED queryVars

\* SELECT idCart, quantity, unitPrice, totalPrice FROM cart WHERE idCart = @idCart
\* and dbRequest(..., ExpectedReturn.Single) returns recordset[0]
SelectResult(p) ==
  /\ pc[p] = "committed"
  /\ \E row \in cart :
       /\ row.idCart = idCart[p]
       /\ result' = [result EXCEPT ![p] =
                       [status |-> "ok", idCart |-> row.idCart, quantity |-> row.quantity,
                        unitPrice |-> row.unitPrice, totalPrice |-> row.totalPrice]]
  /\ pc' = [pc EXCEPT ![p] = "done"]
  /\ UNCHANGED <<catalogVars, cart, identity, args, localVars, historyVars>>
  /\ UNCHANGED queryVars

\* the caller has its answer; the connection goes back to the pool
Return(p) ==
  /\ pc[p] = "done"
  /\ pc' = [pc EXCEPT ![p] = "idle"]
  /\ args' = [args EXCEPT ![p] = NoArgs]
  /\ basePrice' = [basePrice EXCEPT ![p] = NULL]
  /\ priceModifier' = [priceModifier EXCEPT ![p] = NULL]
  /\ idCart' = [idCart EXCEPT ![p] = NULL]
  /\ existingQuantity' = [existingQuantity EXCEPT ![p] = NULL]
  /\ result' = [result EXCEPT ![p] = NoResult]
  /\ lineAtStart' = [lineAtStart EXCEPT ![p] = {}]
  /\ touched' = [touched EXCEPT ![p] = FALSE]
  /\ UNCHANGED <<catalogVars, cart, identity, pending, calls>>
  /\ UNCHANGED queryVars

Next ==
  \/ \E id \in EditedProducts : \E price \in PromotionalPrices :
       SetPromotionalPrice(id, price)
  \/ \E p \in Procs : \E params \in CallParams : Rejected(p, params)
  \/ \E p \in Procs : \E params \in CallParams : Accepted(p, params)
  \/ \E p \in Procs : ReadPrices(p)
  \/ \E p \in Procs : LookupMissed(p)
  \/ \E p \in Procs : LookupFound(p)
  \/ \E p \in Procs : ThrowQuantityExceedsLimit(p)
  \/ \E p \in Procs : Update(p)
  \/ \E p \in Procs : Insert(p)
  \/ \E p \in Procs : InsertDuplicateKey(p)
  \/ \E p \in Procs : Commit(p)
  \/ \E p \in Procs : StoreFailure(p)
  \/ \E p \in Procs : SelectResult(p)
  \/ \E p \in Procs : Return(p)

Spec == Init /\ [][Next]_vars

(***************************************************************************)
(* Properties of addToCart.                                                *)
(***************************************************************************)
\* the call on connection p has finished and returned its line
Succeeded(p) == pc[p] = "done" /\ result[p].status = "ok"

\* the call on connection p has finished with a failure
Failed(p) == pc[p] = "done" /\ result[p].status = "error"

\* the call on connection p was accepted by every precondition and has finished
\* without the store failing for a reason outside the call
FinishedAdd(p) ==
  /\ pc[p] = "done"
  /\ args[p] # NoArgs
  /\ ValidationError(cartAdd(args[p])) = NoError
  /\ ~(result[p].status = "error" /\ result[p].message = "deadlock")

\* C1: two concurrent calls for the same key, with no line for that key when
\* either began, leave exactly one line for the key: its quantity is q1 + q2
\* when q1 + q2 <= 10; otherwise exactly one call is rejected under the
\* ceiling rule and the line holds the other call's quantity.
C1_ConcurrentNewKeyOneLine ==
  \A p, q \in Procs :
    ( /\ p # q
      /\ FinishedAdd(p) /\ FinishedAdd(q)
      /\ SameKey(args[p], args[q])
      /\ lineAtStart[p] = {} /\ lineAtStart[q] = {} )
    => LET total == args[p].quantity + args[q].quantity
           limited(x) == Failed(x) /\ result[x].message = "quantityExceedsLimit"
       IN  /\ Cardinality(Lines(args[p])) = 1
           /\ total <= MaxQuantity =>
                \A r \in Lines(args[p]) : r.quantity = total
           /\ total > MaxQuantity =>
                \/ limited(p) /\ Succeeded(q)
                     /\ \A r \in Lines(args[p]) : r.quantity = args[q].quantity
                \/ limited(q) /\ Succeeded(p)
                     /\ \A r \in Lines(args[p]) : r.quantity = args[p].quantity

\* C2: two concurrent calls for the key of an existing line of quantity e,
\* both returning success, leave the line at e + q1 + q2.
C2_ConcurrentMergeKeepsBoth ==
  \A p, q \in Procs :
    ( /\ p # q
      /\ Succeeded(p) /\ Succeeded(q)
      /\ SameKey(args[p], args[q])
      /\ lineAtStart[p] = lineAtStart[q]
      /\ Cardinality(lineAtStart[p]) = 1 )
    => \A e \in lineAtStart[p] : \A r \in cart :
         r.idCart = e.idCart =>
           r.quantity = e.quantity + args[p].quantity + args[q].quantity

\* C3: in every reachable state, every stored cart line has a quantity
\* between 1 and 10 inclusive.
C3_QuantityWithinLimits ==
  \A r \in cart : MinQuantity <= r.quantity /\ r.quantity <= MaxQuantity

\* a line has been merged up to the ceiling and a further add to it was refused
C3_Witness ==
  \E p \in Procs :
    /\ Failed(p) /\ result[p].message = "quantityExceedsLimit"
    /\ \E r \in cart : r.idCart = idCart[p] /\ r.quantity = MaxQuantity

\* C4: every stored cart line has totalPrice = unitPrice * quantity, also
\* after a merge whose freshly computed unit price differs from the stored one.
C4_TotalIsUnitTimesQuantity ==
  \A r \in cart : r.totalPrice = r.unitPrice * r.quantity

\* C5: after a successful call, the line's stored unit price and the returned
\* unit price both equal (promotional price if set, else base price) plus the
\* size's modifier, as that call read them.
C5_UnitPriceIsTheCallsPrice ==
  \A p \in Procs :
    Succeeded(p) =>
      /\ result[p].unitPrice = UnitPrice(p)
      /\ \A r \in cart : r.idCart = result[p].idCart => r.unitPrice = UnitPrice(p)

\* connection p added q1 to a key that had no line and created the line, and
\* connection q then began and added q2 to the line as p left it, with
\* q1 + q2 within the ceiling
SequentialAdds(p, q) ==
  /\ p # q
  /\ Succeeded(p) /\ Succeeded(q)
  /\ SameKey(args[p], args[q])
  /\ lineAtStart[p] = {} /\ existingQuantity[p] = NULL
  /\ lineAtStart[q] = {[idCart |-> result[p].idCart, quantity |-> args[p].quantity]}
  /\ args[p].quantity + args[q].quantity <= MaxQuantity

\* C6: two sequential calls for the same key with quantities q1 then q2,
\* q1 + q2 <= 10, leave exactly one line for the key; its quantity is q1 + q2
\* and its total price is the unit price the second call computed times
\* (q1 + q2).
C6_SequentialAddsMerge ==
  \A p, q \in Procs :
    SequentialAdds(p, q) =>
      /\ Cardinality(Lines(args[q])) = 1
      /\ \A r \in Lines(args[q]) :
           /\ r.quantity = args[p].quantity + args[q].quantity
           /\ r.totalPrice = UnitPrice(q) * (args[p].quantity + args[q].quantity)

\* two sequential adds have merged, and the price changed between them
C6_Witness ==
  \E p, q \in Procs : SequentialAdds(p, q) /\ UnitPrice(p) # UnitPrice(q)

\* C7: a call that found a line of quantity e for its key fails with the
\* quantity-exceeds-limit failure exactly when e + q > 10, and then the line
\* and the rest of the cart are left as they were; when e + q <= 10 the call
\* goes on to write the merge.
C7_CeilingOnMerge ==
  [][ \A p \in Procs :
        (pc[p] = "tran" /\ pc'[p] # "tran" /\ idCart[p] # NULL) =>
          IF existingQuantity[p] + args[p].quantity > MaxQuantity
          THEN /\ result'[p] = Raised(BusinessErrorNumber, "quantityExceedsLimit")
               /\ pc'[p] = "done"
               /\ cart' = cart
               /\ pending'[p] = NoRow
               /\ ~touched'[p]
          ELSE /\ pc'[p] = "written"
               /\ result'[p] = NoResult ]_vars

\* an add was refused under the ceiling and its line still holds what the call read
C7_Witness ==
  \E p \in Procs :
    /\ Failed(p) /\ result[p].message = "quantityExceedsLimit"
    /\ existingQuantity[p] + args[p].quantity > MaxQuantity
    /\ \E r \in cart : r.idCart = idCart[p] /\ r.quantity = existingQuantity[p]
    /\ \E e \in lineAtStart[p] : e.idCart = idCart[p] /\ e.quantity = existingQuantity[p]

\* C8: whenever a call ends in a failure of any kind (missing id, quantity
\* out of range, product/flavor/size precondition, ceiling exceeded, store
\* failure inside the transaction), the call has changed no cart line: the
\* step that raises the failure leaves the stored lines as they are, no
\* earlier step of the call changed them, and the call's uncommitted write is
\* discarded.
C8_FailureLeavesCartUnchanged ==
  [][ \A p \in Procs :
        result'[p].status = "error" =>
          /\ ~touched'[p]
          /\ pending'[p] = NoRow
          /\ result[p].status # "error" => cart' = cart ]_vars

\* the store failed after the call's INSERT, and the inserted line is not stored
C8_Witness ==
  \E p \in Procs :
    /\ Failed(p) /\ result[p].message = "deadlock"
    /\ idCart[p] # NULL /\ existingQuantity[p] = NULL
    /\ \A r \in cart : r.idCart # idCart[p]

\* the failures the preconditions of addToCart assign to a request
Defects(a) ==
  { m \in { "idAccountRequired", "idUserRequired", "idProductRequired", "flavorRequired",
            "sizeRequired", "invalidQuantity", "productNotAvailable",
            "flavorNotAvailable", "sizeNotAvailable" } :
      \/ m = "idAccountRequired" /\ a.idAccount = NULL
      \/ m = "idUserRequired" /\ a.idUser = NULL
      \/ m = "idProductRequired" /\ a.idProduct = NULL
      \/ m = "flavorRequired" /\ a.idFlavor = NULL
      \/ m = "sizeRequired" /\ a.idSize = NULL
      \/ m = "invalidQuantity" /\ a.quantity \notin MinQuantity .. MaxQuantity
      \/ /\ m = "productNotAvailable"
         /\ a.idProduct \in Products
         /\ \/ product[a.idProduct].active # 1
            \/ product[a.idProduct].available # 1
            \/ product[a.idProduct].deleted # 0
            \/ product[a.idProduct].idAccount # a.idAccount
      \/ /\ m = "flavorNotAvailable"
         /\ a.idFlavor # NULL
         /\ [idAccount |-> a.idAccount, idProduct |-> a.idProduct,
             idFlavor |-> a.idFlavor, available |-> 1] \notin productFlavor
      \/ /\ m = "sizeNotAvailable"
         /\ a.idSize # NULL
         /\ [idAccount |-> a.idAccount, idProduct |-> a.idProduct,
             idSize |-> a.idSize, available |-> 1] \notin productSize }

\* C9: a request that breaks a precondition (a missing tenant, user, product,
\* flavor or size id; a quantity outside 1..10; a product inactive,
\* unavailable, soft-deleted or of another tenant; no available ProductFlavor
\* row; no available ProductSize row) is rejected with the failure of a
\* precondition it breaks, each precondition having its own failure, and the
\* rejection changes no line; a line is written only by a call whose request
\* breaks none of them.
C9_PreconditionsRejected ==
  /\ [][ \A p \in Procs :
           (pc[p] = "idle" /\ pc'[p] # "idle") =>
             IF Defects(args'[p]) # {}
             THEN /\ pc'[p] = "done"
                  /\ result'[p].status = "error"
                  /\ result'[p].number = BusinessErrorNumber
                  /\ result'[p].message \in Defects(args'[p])
                  /\ cart' = cart
                  /\ pending' = pending
             ELSE pc'[p] = "price" /\ result'[p] = NoResult ]_vars
  /\ [](\A p \in Procs :
          (pending[p] # NoRow \/ touched[p]) => Defects(args[p]) = {})

\* one request was refused for its flavor and another for its product, while
\* the cart holds a line
C9_Witness ==
  \E p, q \in Procs :
    /\ Failed(p) /\ result[p].message = "flavorNotAvailable"
    /\ Failed(q) /\ result[q].message = "productNotAvailable"
    /\ cart # {}

\* notes that are empty or NULL hold no text
NoText(notes) == notes = "" \/ notes = NullNotes

\* C10: when a call merges into an existing line, the line's notes become the
\* call's notes if notes were supplied, and stay what they were if the call
\* carried no notes.
C10_NotesReplacedIffSupplied ==
  \A p \in Procs :
    (pc[p] = "written" /\ existingQuantity[p] # NULL) =>
      \A r \in cart :
        r.idCart = idCart[p] =>
          IF args[p].notes = Undefined
          THEN pending[p].notes = r.notes
          ELSE \/ pending[p].notes = args[p].notes
               \/ NoText(pending[p].notes) /\ NoText(args[p].notes)

(***************************************************************************)
(* Catalog Query Engine.                                                   *)
(*                                                                         *)
(* A request enters through the controller (listHandler, getHandler,       *)
(* relatedHandler) or reaches the service function directly; the service   *)
(* function builds the procedure's parameters and the procedure sends its  *)
(* result sets one statement after the other.  The catalog does not change *)
(* while queries run.                                                      *)
(***************************************************************************)
\* a numeric property absent from a request object (TypeScript undefined)
UndefinedNumber == 0 - 2
\* an optional text or id list: <<>> when absent (undefined / NULL), <<v>> when v is given
Absent == <<>>
Given(v) == <<v>>

\* texts are sequences of letter codes (1 = a, 2 = b, 3 = c)
Min(a, b) == IF a <= b THEN a ELSE b

\* [text] < [other] in dictionary order
RECURSIVE TextBefore(_, _)
TextBefore(text, other) ==
  IF other = <<>> THEN FALSE
  ELSE IF text = <<>> THEN TRUE
  ELSE IF Head(text) # Head(other) THEN Head(text) < Head(other)
  ELSE TextBefore(Tail(text), Tail(other))

\* [text] LIKE '%' + term + '%'
Like(text, term) ==
  \E i \in 0 .. Len(text) :
    /\ i + Len(term) <= Len(text)
    /\ \A j \in 1 .. Len(term) : text[i + j] = term[j]

(***************************************************************************)
(* The catalog the queries read.  Account 1: products 1..13 are visible    *)
(* (12 and 13 carry the same name, rating and price), 14 is unavailable,   *)
(* 15 inactive, 16 soft-deleted, 17 of a deleted confectioner, 18 of a     *)
(* deleted category, 20 of a confectioner only account 2 has.  Product 19  *)
(* belongs to account 2.                                                   *)
(***************************************************************************)
ListedProducts == 1 .. 20

\* NVARCHAR columns hold sequences of character codes; a NULL column is NullText.
\* The codes of '[' and ']' delimit the JSON documents of the model.
NullText == <<NULL>>
OpenBracket == 7
CloseBracket == 8

ListedProduct ==
  [id \in ListedProducts |->
     [idAccount        |-> IF id = 19 THEN 2 ELSE 1,
      idConfectioner   |-> IF id = 17 THEN 3 ELSE IF id = 20 THEN 4
                           ELSE IF id <= 9 THEN 1 ELSE 2,
      idCategory       |-> IF id = 18 THEN 3 ELSE IF id <= 6 THEN 1 ELSE 2,
      name             |-> IF id \in {12, 13} THEN <<3, 3>> ELSE <<1, id>>,
      description      |-> <<2>>,
      ingredients      |-> IF id = 11 THEN <<1>> ELSE IF id = 10 THEN NullText
                           ELSE <<OpenBracket, 1, CloseBracket>>,
      nutritionalInfo  |-> IF id = 1 THEN <<OpenBracket, 2, CloseBracket>>
                           ELSE IF id = 2 THEN <<>> ELSE IF id = 3 THEN <<2>>
                           ELSE NullText,
      imageGallery     |-> IF id = 1 THEN <<OpenBracket, 4, 5, CloseBracket>>
                           ELSE IF id = 4 THEN <<4>> ELSE NullText,
      basePrice        |-> IF id \in {12, 13} THEN 30
                           ELSE IF id % 2 = 1 THEN 10 ELSE 20,
      promotionalPrice |-> IF id = 2 THEN 8 ELSE NULL,
      averageRating    |-> IF id \in {12, 13} THEN 1
                           ELSE IF id <= 4 THEN 5 ELSE IF id <= 8 THEN 4 ELSE 3,
      totalReviews     |-> id,
      deleted          |-> IF id = 16 THEN 1 ELSE 0,
      active           |-> IF id = 15 THEN 0 ELSE 1,
      available        |-> IF id = 14 THEN 0 ELSE 1]]

\* functional.confectioner rows
ConfectionerRows ==
  { [idAccount |-> 1, idConfectioner |-> 1, deleted |-> 0],
    [idAccount |-> 1, idConfectioner |-> 2, deleted |-> 0],
    [idAccount |-> 1, idConfectioner |-> 3, deleted |-> 1],
    [idAccount |-> 2, idConfectioner |-> 1, deleted |-> 0],
    [idAccount |-> 2, idConfectioner |-> 4, deleted |-> 0] }

\* functional.category rows
CategoryRows ==
  { [idAccount |-> 1, idCategory |-> 1, deleted |-> 0],
    [idAccount |-> 1, idCategory |-> 2, deleted |-> 0],
    [idAccount |-> 1, idCategory |-> 3, deleted |-> 1],
    [idAccount |-> 2, idCategory |-> 1, deleted |-> 0] }

\* functional.productFlavor rows of the listed products: flavor 1 is available
\* for the odd products, flavor 2 for products 1..4; product 6 lists flavor 1
\* as unavailable
ListedFlavorRows ==
  { [idAccount |-> ListedProduct[id].idAccount, idProduct |-> id, idFlavor |-> 1,
     available |-> 1] : id \in { i \in ListedProducts : i % 2 = 1 } }
  \cup
  { [idAccount |-> 1, idProduct |-> id, idFlavor |-> 2, available |-> 1] : id \in 1 .. 4 }
  \cup
  { [idAccount |-> 1, idProduct |-> 6, idFlavor |-> 1, available |-> 0],
    [idAccount |-> 2, idProduct |-> 2, idFlavor |-> 1, available |-> 1] }

\* functional.productSize rows of the listed products: size 1 is available for
\* products 1..8 and 19, size 2 for product 10; product 9 lists size 1 as
\* unavailable
ListedSizeRows ==
  { [idAccount |-> 1, idProduct |-> id, idSize |-> 1, available |-> 1] : id \in 1 .. 8 }
  \cup
  { [idAccount |-> 1, idProduct |-> 10, idSize |-> 2, available |-> 1],
    [idAccount |-> 1, idProduct |-> 9, idSize |-> 1, available |-> 0],
    [idAccount |-> 2, idProduct |-> 19, idSize |-> 1, available |-> 1] }

(***************************************************************************)
(* listProducts: requests.                                                 *)
(***************************************************************************)
SortKeys == { "relevancia", "preco_menor", "preco_maior", "mais_vendidos",
              "melhor_avaliados", "mais_recentes" }
\* IF (@pageSize NOT IN (12, 24, 36)) SET @pageSize = 12
PageSizes == {12, 24, 36}
DefaultPageSize == 12

NoFilters ==
  [categoryIds |-> Absent, flavorIds |-> Absent, sizeIds |-> Absent,
   minPrice |-> UndefinedNumber, maxPrice |-> UndefinedNumber,
   confectionerIds |-> Absent, searchTerm |-> Absent]

\* every combination of filters, on the first page in the default order
FilterChoices ==
  [categoryIds : {Absent, Given(<<1>>), Given(<<1, 2>>)},
   flavorIds : {Absent, Given(<<1>>)},
   sizeIds : {Absent, Given(<<1>>)},
   minPrice : {UndefinedNumber, 0, 15},
   maxPrice : {UndefinedNumber, 0, 15},
   confectionerIds : {Absent, Given(<<2>>)},
   searchTerm : {Absent, Given(<<3>>)}]

\* every sort key, page and page size, without filters
PagingChoices ==
  [page : {UndefinedNumber, 1, 2, 3},
   pageSize : {UndefinedNumber, 12, 24, 36, 50},
   sortBy : SortKeys \cup {Undefined}]

\* the query object the controller receives (req.query after z.coerce)
WithFilters(f, toggle) ==
  [page |-> UndefinedNumber, pageSize |-> UndefinedNumber, sortBy |-> Undefined,
   categoryIds |-> f.categoryIds, flavorIds |-> f.flavorIds, sizeIds |-> f.sizeIds,
   minPrice |-> f.minPrice, maxPrice |-> f.maxPrice,
   confectionerIds |-> f.confectionerIds, searchTerm |-> f.searchTerm,
   availableOnly |-> toggle]

WithPaging(g, toggle) ==
  [WithFilters(NoFilters, toggle) EXCEPT !.page = g.page, !.pageSize = g.pageSize,
                                         !.sortBy = g.sortBy]

ListQueries ==
  { WithFilters(f, t) : f \in FilterChoices, t \in {UndefinedNumber, 0, 1} }
  \cup { WithPaging(g, UndefinedNumber) : g \in PagingChoices }
  \cup { [WithFilters(NoFilters, UndefinedNumber) EXCEPT !.page = 0] }

\* the parameter object of productList (ProductListParams)
Params(idAccount, q, toggle) ==
  [idAccount |-> idAccount, page |-> q.page, pageSize |-> q.pageSize,
   sortBy |-> q.sortBy, categoryIds |-> q.categoryIds, flavorIds |-> q.flavorIds,
   sizeIds |-> q.sizeIds, minPrice |-> q.minPrice, maxPrice |-> q.maxPrice,
   confectionerIds |-> q.confectionerIds, searchTerm |-> q.searchTerm,
   availableOnly |-> toggle]

ListParams ==
  { Params(1, WithFilters(f, UndefinedNumber), t) :
      f \in FilterChoices, t \in {Undefined, "true", "false"} }
  \cup { Params(1, WithPaging(g, UndefinedNumber), Undefined) : g \in PagingChoices }
  \cup { Params(id, WithFilters(NoFilters, UndefinedNumber), Undefined) : id \in {NULL, 2} }
  \cup { Params(1, WithPaging([page |-> pg, pageSize |-> UndefinedNumber,
                               sortBy |-> Undefined], UndefinedNumber), Undefined) :
           pg \in {0, 0 - 3} }

(***************************************************************************)
(* listHandler (controller): validation of the query and the parameter     *)
(* object handed to productList.                                           *)
(***************************************************************************)
\* querySchema (zod)
QueryValid(q) ==
  /\ IF q.page = UndefinedNumber THEN TRUE ELSE q.page >= 1
  /\ IF q.pageSize = UndefinedNumber THEN TRUE ELSE q.pageSize \in {12, 24, 36}
  /\ IF q.sortBy = Undefined THEN TRUE ELSE q.sortBy \in SortKeys
  /\ IF q.minPrice = UndefinedNumber THEN TRUE ELSE q.minPrice >= 0
  /\ IF q.maxPrice = UndefinedNumber THEN TRUE ELSE q.maxPrice >= 0
  /\ IF q.searchTerm = Absent THEN TRUE ELSE Len(q.searchTerm[1]) <= 100
  /\ IF q.availableOnly = UndefinedNumber THEN TRUE ELSE q.availableOnly \in {0, 1}

\* availableOnly: params.availableOnly === 1
StrictlyOne(n) == IF n = 1 THEN "true" ELSE "false"

\* idAccount: validated.credential.idAccount (CrudController: 1); the id lists
\* are split at ',' and mapped to numbers
listHandler(q) == Params(1, q, StrictlyOne(q.availableOnly))

(***************************************************************************)
(* productList (service): the parameters handed to spProductList.          *)
(***************************************************************************)
\* n || d for a number: undefined and 0 are falsy
NumberOr(n, d) == IF n = UndefinedNumber \/ n = 0 THEN d ELSE n

\* s || d for a string: undefined and '' are falsy
StringOr(str, d) == IF str = Undefined \/ str = "" THEN d ELSE str

\* ids?.join(',') || null and searchTerm || null: undefined, [] and '' give NULL
TextOrNull(v) == IF v = Absent \/ v = Given(<<>>) THEN Absent ELSE v

\* availableOnly !== undefined ? (availableOnly ? 1 : 0) : 1
AvailableOnlyBit(b) == IF b = Undefined THEN 1 ELSE IF b = "true" THEN 1 ELSE 0

productList(params) ==
  [idAccount       |-> params.idAccount,
   page            |-> NumberOr(params.page, 1),
   pageSize        |-> NumberOr(params.pageSize, 12),
   sortBy          |-> StringOr(params.sortBy, "relevancia"),
   categoryIds     |-> TextOrNull(params.categoryIds),
   flavorIds       |-> TextOrNull(params.flavorIds),
   sizeIds         |-> TextOrNull(params.sizeIds),
   minPrice        |-> NumberOr(params.minPrice, NULL),
   maxPrice        |-> NumberOr(params.maxPrice, NULL),
   confectionerIds |-> TextOrNull(params.confectionerIds),
   searchTerm      |-> TextOrNull(params.searchTerm),
   availableOnly   |-> AvailableOnlyBit(params.availableOnly)]

(***************************************************************************)
(* spProductList.                                                          *)
(***************************************************************************)
\* IF (@idAccount IS NULL) THROW; IF (@page < 1) THROW
ListError(a) ==
  IF a.idAccount = NULL THEN "idAccountRequired"
  ELSE IF a.page < 1 THEN "invalidPageNumber"
  ELSE NoError

\* IF (@pageSize NOT IN (12, 24, 36)) SET @pageSize = 12
EffectivePageSize(pageSize) ==
  IF pageSize \notin PageSizes THEN DefaultPageSize ELSE pageSize

\* an offset that counts the requested page itself among the pages skipped
Offset_PagesThroughPage(a) == a.page * EffectivePageSize(a.pageSize)

\* DECLARE @offset INT = (@page - 1) * @pageSize
Offset(a) == (a.page - 1) * EffectivePageSize(a.pageSize)

\* @ids IS NULL OR [col] IN (SELECT CAST([value] AS INT) FROM STRING_SPLIT(@ids, ','))
NullOrIn(id, ids) ==
  ids = Absent \/ \E i \in 1 .. Len(ids[1]) : ids[1][i] = id

\* @searchTerm IS NULL OR name / description / ingredients LIKE '%' + @searchTerm + '%'
NullOrFound(prd, term) ==
  \/ term = Absent
  \/ Like(prd.name, term[1])
  \/ Like(prd.description, term[1])
  \/ Like(prd.ingredients, term[1])

\* the flavor filter without its test of the row's available flag
NullOrHasFlavor_AnyRow(id, ids) ==
  \/ ids = Absent
  \/ \E r \in productFlavor :
       /\ r.idAccount = product[id].idAccount
       /\ r.idProduct = id
       /\ NullOrIn(r.idFlavor, ids)

\* @flavorIds IS NULL OR EXISTS (SELECT 1 FROM productFlavor ... AND available = 1)
NullOrHasFlavor(id, ids) ==
  \/ ids = Absent
  \/ \E r \in productFlavor :
       /\ r.idAccount = product[id].idAccount
       /\ r.idProduct = id
       /\ NullOrIn(r.idFlavor, ids)
       /\ r.available = 1

\* @sizeIds IS NULL OR EXISTS (SELECT 1 FROM productSize ... AND available = 1)
NullOrHasSize(id, ids) ==
  \/ ids = Absent
  \/ \E r \in productSize :
       /\ r.idAccount = product[id].idAccount
       /\ r.idProduct = id
       /\ NullOrIn(r.idSize, ids)
       /\ r.available = 1

\* WITH [FilteredProducts] AS (SELECT ... FROM product JOIN confectioner JOIN category WHERE ...)
FilteredProducts(a) ==
  { id \in DOMAIN product :
      /\ \E cnf \in confectioner :
           /\ cnf.idAccount = product[id].idAccount
           /\ cnf.idConfectioner = product[id].idConfectioner
           /\ cnf.deleted = 0
      /\ \E cat \in category :
           /\ cat.idAccount = product[id].idAccount
           /\ cat.idCategory = product[id].idCategory
           /\ cat.deleted = 0
      /\ product[id].idAccount = a.idAccount
      /\ product[id].deleted = 0
      /\ product[id].active = 1
      /\ (a.availableOnly = 0 \/ product[id].available = 1)
      /\ NullOrIn(product[id].idCategory, a.categoryIds)
      /\ NullOrIn(product[id].idConfectioner, a.confectionerIds)
      /\ (a.minPrice = NULL \/ product[id].basePrice >= a.minPrice)
      /\ (a.maxPrice = NULL \/ product[id].basePrice <= a.maxPrice)
      /\ NullOrFound(product[id], a.searchTerm)
      /\ NullOrHasFlavor(id, a.flavorIds)
      /\ NullOrHasSize(id, a.sizeIds) }

\* the columns of a product row kept by the model
ProductRow(id) ==
  [idProduct |-> id, name |-> product[id].name, basePrice |-> product[id].basePrice,
   promotionalPrice |-> product[id].promotionalPrice,
   averageRating |-> product[id].averageRating,
   totalReviews |-> product[id].totalReviews, available |-> product[id].available]

\* the one CASE WHEN @sortBy = ... THEN [col] END term of the ORDER BY that is
\* not NULL for every row, as a number that sorts ascending
SortCriterion(id, sortBy) ==
  IF sortBy = "preco_menor" THEN product[id].basePrice
  ELSE IF sortBy = "preco_maior" THEN 0 - product[id].basePrice
  ELSE IF sortBy = "melhor_avaliados" THEN 0 - product[id].averageRating
  ELSE IF sortBy = "relevancia" THEN 0 - product[id].averageRating
  ELSE 0

\* the order in which the engine emits rows that are equal on every ORDER BY
\* term: ORDER BY leaves it open, and it may differ from one execution to the next
ScanOrders == {"ascending", "descending"}

\* ORDER BY <criterion>, [name] ASC
SortsBefore(x, y, sortBy, scan) ==
  IF SortCriterion(x, sortBy) # SortCriterion(y, sortBy)
  THEN SortCriterion(x, sortBy) < SortCriterion(y, sortBy)
  ELSE IF product[x].name # product[y].name
  THEN TextBefore(product[x].name, product[y].name)
  ELSE IF scan = "ascending" THEN x < y ELSE x > y

RECURSIVE Ordered(_, _, _)
Ordered(ids, sortBy, scan) ==
  IF ids = {} THEN <<>>
  ELSE LET first == CHOOSE x \in ids :
                      \A y \in ids \ {x} : SortsBefore(x, y, sortBy, scan)
       IN  <<first>> \o Ordered(ids \ {first}, sortBy, scan)

\* OFFSET @offset ROWS FETCH NEXT @pageSize ROWS ONLY
Fetch(rows, offset, pageSize) ==
  IF offset >= Len(rows) THEN <<>>
  ELSE SubSeq(rows, offset + 1, Min(offset + pageSize, Len(rows)))

\* the first result set: SELECT ... FROM [FilteredProducts] ORDER BY ... OFFSET ... FETCH
ProductsPage(a, scan) ==
  LET ordered == Ordered(FilteredProducts(a), a.sortBy, scan)
      page == Fetch(ordered, Offset(a), EffectivePageSize(a.pageSize))
  IN  [i \in 1 .. Len(page) |-> ProductRow(page[i])]

\* CEILING(CAST(COUNT(*) AS FLOAT) / @pageSize)
Ceiling(n, d) == (n + d - 1) \div d

\* the second result set: SELECT COUNT(*), CEILING(...) FROM [FilteredProducts]
Pagination(a) ==
  << [totalCount |-> Cardinality(FilteredProducts(a)),
      totalPages |-> Ceiling(Cardinality(FilteredProducts(a)),
                             EffectivePageSize(a.pageSize))] >>

\* productList: return { products, totalCount, totalPages, currentPage, pageSize }
ProductListResponse(params, sets) ==
  [status |-> "ok",
   products    |-> sets[1],
   totalCount  |-> sets[2][1].totalCount,
   totalPages  |-> sets[2][1].totalPages,
   currentPage |-> NumberOr(params.page, 1),
   pageSize    |-> NumberOr(params.pageSize, 12)]

(***************************************************************************)
(* listProducts: one call on connection p.                                 *)
(* pc: idle -> list -> count -> done, or -> done from a rejection.         *)
(***************************************************************************)
\* what the catalog queries leave alone
cartVars == <<uniqueKey, cart, identity, basePrice, priceModifier, idCart,
              existingQuantity, pending, lineAtStart, touched, calls>>
tableVars == <<product, productFlavor, productSize, size, confectioner, category,
               flavor, review>>

\* the parameter object productList works on
ParamsOf(a) == IF a.via = "handler" THEN listHandler(a.request) ELSE a.request

\* the parameters spProductList runs with
ListArguments(p) == productList(ParamsOf(args[p]))

\* listHandler: the query fails querySchema; the error goes to next(error)
ListRequestRejected(p, q) ==
  /\ pc[p] = "idle"
  /\ ~QueryValid(q)
  /\ args' = [args EXCEPT ![p] = [operation |-> "listProducts", via |-> "handler",
                                  request |-> q]]
  /\ result' = [result EXCEPT ![p] = Raised(NULL, "ZodError")]
  /\ pc' = [pc EXCEPT ![p] = "done"]
  /\ UNCHANGED <<cartVars, tableVars, recordsets>>

\* listHandler: the query passes querySchema and productList is called
ListRequest(p, q) ==
  /\ pc[p] = "idle"
  /\ QueryValid(q)
  /\ args' = [args EXCEPT ![p] = [operation |-> "listProducts", via |-> "handler",
                                  request |-> q]]
  /\ pc' = [pc EXCEPT ![p] = "list"]
  /\ UNCHANGED <<cartVars, tableVars, recordsets, result>>

\* productList is called with a parameter object
ListCall(p, params) ==
  /\ pc[p] = "idle"
  /\ args' = [args EXCEPT ![p] = [operation |-> "listProducts", via |-> "service",
                                  request |-> params]]
  /\ pc' = [pc EXCEPT ![p] = "list"]
  /\ UNCHANGED <<cartVars, tableVars, recordsets, result>>

\* spProductList: THROW 51000 'idAccountRequired' / 'invalidPageNumber'
ListThrow(p) ==
  /\ pc[p] = "list"
  /\ ListError(ListArguments(p)) # NoError
  /\ result' = [result EXCEPT ![p] =
                  Raised(BusinessErrorNumber, ListError(ListArguments(p)))]
  /\ pc' = [pc EXCEPT ![p] = "done"]
  /\ UNCHANGED <<cartVars, tableVars, recordsets, args>>

\* spProductList: WITH [FilteredProducts] AS (...) SELECT ... ORDER BY ... OFFSET ... FETCH
ListRows(p, scan) ==
  /\ pc[p] = "list"
  /\ ListError(ListArguments(p)) = NoError
  /\ recordsets' = [recordsets EXCEPT ![p] = <<ProductsPage(ListArguments(p), scan)>>]
  /\ pc' = [pc EXCEPT ![p] = "count"]
  /\ UNCHANGED <<cartVars, tableVars, args, result>>

\* spProductList: SELECT COUNT(*), CEILING(...) FROM [FilteredProducts], taken
\* over the filter of the WITH clause as the procedure is written to do, and
\* productList builds its response from the two result sets
ListCount(p) ==
  /\ pc[p] = "count"
  /\ recordsets' = [recordsets EXCEPT ![p] = Append(@, Pagination(ListArguments(p)))]
  /\ result' = [result EXCEPT ![p] =
                  ProductListResponse(ParamsOf(args[p]), recordsets'[p])]
  /\ pc' = [pc EXCEPT ![p] = "done"]
  /\ UNCHANGED <<cartVars, tableVars, args>>

\* spProductList: the count is a second statement.  T-SQL keeps the name a
\* WITH clause defines for the single statement the clause belongs to, so the
\* engine finds no object named FilteredProducts here and raises error 208
\* (invalid object name) after the first result set was sent; the request
\* fails and productList returns nothing.
ListCountFails(p) ==
  /\ pc[p] = "count"
  /\ result' = [result EXCEPT ![p] = Raised(208, "invalidObjectName")]
  /\ pc' = [pc EXCEPT ![p] = "done"]
  /\ UNCHANGED <<cartVars, tableVars, args, recordsets>>

\* the state in which no call runs, over the listed catalog
ListInit ==
  /\ product = ListedProduct
  /\ productFlavor = ListedFlavorRows
  /\ productSize = ListedSizeRows
  /\ size = InitialSize
  /\ confectioner = ConfectionerRows
  /\ category = CategoryRows
  /\ uniqueKey = FALSE
  /\ cart = {}
  /\ identity = 1
  /\ pc = [p \in Procs |-> "idle"]
  /\ args = [p \in Procs |-> NoArgs]
  /\ basePrice = [p \in Procs |-> NULL]
  /\ priceModifier = [p \in Procs |-> NULL]
  /\ idCart = [p \in Procs |-> NULL]
  /\ existingQuantity = [p \in Procs |-> NULL]
  /\ pending = [p \in Procs |-> NoRow]
  /\ result = [p \in Procs |-> NoResult]
  /\ lineAtStart = [p \in Procs |-> {}]
  /\ touched = [p \in Procs |-> FALSE]
  /\ calls = 0
  /\ recordsets = [p \in Procs |-> <<>>]
  /\ flavor = {}
  /\ review = {}

\* one connection issues one listProducts request
ListNext ==
  \/ \E q \in ListQueries : ListRequestRejected("p1", q)
  \/ \E q \in ListQueries : ListRequest("p1", q)
  \/ \E params \in ListParams : ListCall("p1", params)
  \/ ListThrow("p1")
  \/ \E scan \in ScanOrders : ListRows("p1", scan)
  \/ ListCount("p1")
  \/ ListCountFails("p1")

ListSpec == ListInit /\ [][ListNext]_vars

(***************************************************************************)
(* listProducts over two requests, each its own execution of               *)
(* spProductList: page 1 and page 2 of one listing, or the same page twice.*)
(***************************************************************************)
\* the listings read page by page: every sort key, with the toggle left out or off
PagedListings ==
  { [Params(1, WithFilters(NoFilters, UndefinedNumber), t) EXCEPT
       !.pageSize = 12, !.sortBy = k] :
      k \in SortKeys, t \in {Undefined, "false"} }

\* productList is called for page 1 on one connection and for page 2 on the other
PagesCall(listing) ==
  /\ \A p \in Procs : pc[p] = "idle"
  /\ args' = [p \in Procs |->
               [operation |-> "listProducts", via |-> "service",
                request |-> [listing EXCEPT !.page = IF p = "p1" THEN 1 ELSE 2]]]
  /\ pc' = [p \in Procs |-> "list"]
  /\ UNCHANGED <<cartVars, tableVars, recordsets, result>>

\* productList is called twice with the same parameters, once on each connection
RepeatCall(listing) ==
  /\ \A p \in Procs : pc[p] = "idle"
  /\ args' = [p \in Procs |->
               [operation |-> "listProducts", via |-> "service", request |-> listing]]
  /\ pc' = [p \in Procs |-> "list"]
  /\ UNCHANGED <<cartVars, tableVars, recordsets, result>>

PagesNext ==
  \/ \E listing \in PagedListings : PagesCall(listing)
  \/ \E listing \in PagedListings : RepeatCall(listing)
  \/ \E p \in Procs, scan \in ScanOrders : ListRows(p, scan)
  \/ \E p \in Procs : ListCount(p)
  \/ \E p \in Procs : ListCountFails(p)

PagesSpec == ListInit /\ [][PagesNext]_vars

(***************************************************************************)
(* getProductDetails: rows read by spProductGet only.                      *)
(***************************************************************************)
\* functional.flavor rows: flavor 2 of account 1 is soft-deleted
FlavorRows ==
  { [idAccount |-> a, idFlavor |-> f, name |-> <<f>>,
     deleted |-> IF a = 1 /\ f = 2 THEN 1 ELSE 0] : a \in Accounts, f \in Flavors }

\* functional.size rows with the columns spProductGet reads: size 3 is soft-deleted
DetailedSize ==
  [k \in Accounts \X Sizes |->
     [priceModifier |-> IF k[2] = 2 THEN 5 ELSE 0, name |-> <<k[2]>>,
      deleted |-> IF k[2] = 3 THEN 1 ELSE 0]]

\* functional.review rows: product 1 has two reviews and a soft-deleted one
ReviewRows ==
  { [idAccount |-> 1, idProduct |-> 1, idReview |-> 1, rating |-> 5,
     dateCreated |-> 1, deleted |-> 0],
    [idAccount |-> 1, idProduct |-> 1, idReview |-> 2, rating |-> 4,
     dateCreated |-> 2, deleted |-> 0],
    [idAccount |-> 1, idProduct |-> 1, idReview |-> 3, rating |-> 1,
     dateCreated |-> 3, deleted |-> 1],
    [idAccount |-> 2, idProduct |-> 19, idReview |-> 4, rating |-> 2,
     dateCreated |-> 4, deleted |-> 0] }

(***************************************************************************)
(* getHandler (controller) and productGet (service): parameters.           *)
(***************************************************************************)
\* paramsSchema: id: z.coerce.number().int().positive()
IdValid(id) == id >= 1

\* productGet(validated.credential.idAccount, params.id)
getHandler(q) == [idAccount |-> 1, idProduct |-> q.id]

\* the parameters spProductGet and spProductRelated run with
LookupOf(a) == IF a.via = "handler" THEN getHandler(a.request) ELSE a.request

(***************************************************************************)
(* spProductGet.                                                           *)
(***************************************************************************)
\* a lookup of the product that takes soft-deleted rows too
ProductFound_IgnoresDeleted(a) ==
  \E id \in DOMAIN product :
    /\ id = a.idProduct
    /\ product[id].idAccount = a.idAccount

\* a lookup of the product that does not compare the account
ProductFound_AnyTenant(a) ==
  \E id \in DOMAIN product :
    /\ id = a.idProduct
    /\ product[id].deleted = 0

\* EXISTS (SELECT 1 FROM product WHERE idProduct = @idProduct AND idAccount = @idAccount
\*         AND deleted = 0)
ProductFound(a) ==
  \E id \in DOMAIN product :
    /\ id = a.idProduct
    /\ product[id].idAccount = a.idAccount
    /\ product[id].deleted = 0

\* the IF ... THROW chain of spProductGet, in source order
GetError(a) ==
  IF a.idAccount = NULL THEN "idAccountRequired"
  ELSE IF a.idProduct = NULL THEN "idProductRequired"
  ELSE IF ~ProductFound(a) THEN "productNotFound"
  ELSE NoError

\* the columns of the first result set kept by the model; idAccount is not
\* selected, the model keeps it on every row to tell whose row it is
DetailRow(id, cnf) ==
  [idProduct |-> id, idAccount |-> product[id].idAccount, name |-> product[id].name,
   ingredients |-> product[id].ingredients,
   nutritionalInfo |-> product[id].nutritionalInfo,
   imageGallery |-> product[id].imageGallery,
   basePrice |-> product[id].basePrice,
   promotionalPrice |-> product[id].promotionalPrice,
   available |-> product[id].available,
   idConfectioner |-> cnf.idConfectioner]

\* first result set: product JOIN confectioner ON idAccount, idConfectioner
\* WHERE idProduct = @idProduct AND idAccount = @idAccount AND deleted = 0
ProductSet(a) ==
  LET rows == UNION { { DetailRow(id, cnf) :
                          cnf \in { c \in confectioner :
                                      /\ c.idAccount = product[id].idAccount
                                      /\ c.idConfectioner = product[id].idConfectioner } } :
                      id \in { i \in DOMAIN product :
                                 /\ i = a.idProduct
                                 /\ product[i].idAccount = a.idAccount
                                 /\ product[i].deleted = 0 } }
  IN  IF rows = {} THEN <<>> ELSE << CHOOSE r \in rows : TRUE >>

\* second result set: productFlavor JOIN flavor ON idAccount, idFlavor
\* WHERE idAccount, idProduct, flv.deleted = 0
FlavorJoin(a) ==
  { [idAccount |-> r.idAccount, idFlavor |-> r.idFlavor,
     name |-> (CHOOSE f \in flavor :
                 f.idAccount = r.idAccount /\ f.idFlavor = r.idFlavor).name,
     available |-> r.available] :
      r \in { x \in productFlavor :
                /\ x.idAccount = a.idAccount
                /\ x.idProduct = a.idProduct
                /\ \E f \in flavor :
                     f.idAccount = x.idAccount /\ f.idFlavor = x.idFlavor /\ f.deleted = 0 } }

\* third result set: productSize JOIN size WHERE idAccount, idProduct, siz.deleted = 0
SizeJoin(a) ==
  { [idAccount |-> r.idAccount, idSize |-> r.idSize,
     priceModifier |-> size[<<r.idAccount, r.idSize>>].priceModifier,
     available |-> r.available] :
      r \in { x \in productSize :
                /\ x.idAccount = a.idAccount
                /\ x.idProduct = a.idProduct
                /\ <<x.idAccount, x.idSize>> \in DOMAIN size
                /\ size[<<x.idAccount, x.idSize>>].deleted = 0 } }

\* fourth result set: review WHERE idAccount, idProduct, deleted = 0
ReviewsOf(a) ==
  { [idAccount |-> r.idAccount, idReview |-> r.idReview, rating |-> r.rating,
     dateCreated |-> r.dateCreated] :
      r \in { x \in review :
                x.idAccount = a.idAccount /\ x.idProduct = a.idProduct /\ x.deleted = 0 } }

\* ORDER BY [flv].[name]
RECURSIVE FlavorsOrdered(_, _)
FlavorsOrdered(rows, scan) ==
  IF rows = {} THEN <<>>
  ELSE LET first == CHOOSE x \in rows : \A y \in rows \ {x} :
                      IF x.name # y.name THEN TextBefore(x.name, y.name)
                      ELSE IF scan = "ascending" THEN x.idFlavor < y.idFlavor
                      ELSE x.idFlavor > y.idFlavor
       IN  <<first>> \o FlavorsOrdered(rows \ {first}, scan)

\* ORDER BY [siz].[priceModifier]
RECURSIVE SizesOrdered(_, _)
SizesOrdered(rows, scan) ==
  IF rows = {} THEN <<>>
  ELSE LET first == CHOOSE x \in rows : \A y \in rows \ {x} :
                      IF x.priceModifier # y.priceModifier
                      THEN x.priceModifier < y.priceModifier
                      ELSE IF scan = "ascending" THEN x.idSize < y.idSize
                      ELSE x.idSize > y.idSize
       IN  <<first>> \o SizesOrdered(rows \ {first}, scan)

\* ORDER BY [rev].[dateCreated] DESC
RECURSIVE ReviewsOrdered(_, _)
ReviewsOrdered(rows, scan) ==
  IF rows = {} THEN <<>>
  ELSE LET first == CHOOSE x \in rows : \A y \in rows \ {x} :
                      IF x.dateCreated # y.dateCreated
                      THEN x.dateCreated > y.dateCreated
                      ELSE IF scan = "ascending" THEN x.idReview < y.idReview
                      ELSE x.idReview > y.idReview
       IN  <<first>> \o ReviewsOrdered(rows \ {first}, scan)

\* the four result sets of spProductGet
DetailSets(a, scan) ==
  << ProductSet(a), FlavorsOrdered(FlavorJoin(a), scan),
     SizesOrdered(SizeJoin(a), scan), ReviewsOrdered(ReviewsOf(a), scan) >>

(***************************************************************************)
(* productGet (service): the response built from the result sets.          *)
(***************************************************************************)
\* a text JSON.parse accepts: a bracketed document
IsJson(text) ==
  /\ Len(text) >= 2
  /\ text[1] = OpenBracket
  /\ text[Len(text)] = CloseBracket

\* a column value JavaScript treats as false: null and ''
Falsy(text) == text = NullText \/ text = <<>>

\* JSON.parse(text) of a text it accepts: the items between the brackets;
\* JSON.parse(null) is null
JsonParse(text) ==
  IF text = NullText THEN NullText ELSE SubSeq(text, 2, Len(text) - 1)

\* whether JSON.parse(text) throws a SyntaxError
JsonThrows(text) == text # NullText /\ ~IsJson(text)

\* productGet: product = recordset[0]; return { ...product, ingredients: JSON.parse(...), ... }
ProductDetailsResponse(sets) ==
  IF sets[1] = <<>> THEN Raised(NULL, "TypeError")
  ELSE IF JsonThrows(sets[1][1].ingredients) THEN Raised(NULL, "SyntaxError")
  ELSE IF ~Falsy(sets[1][1].nutritionalInfo) /\ JsonThrows(sets[1][1].nutritionalInfo)
  THEN Raised(NULL, "SyntaxError")
  ELSE IF ~Falsy(sets[1][1].imageGallery) /\ JsonThrows(sets[1][1].imageGallery)
  THEN Raised(NULL, "SyntaxError")
  ELSE [status |-> "ok",
        product |-> sets[1][1],
        ingredients |-> JsonParse(sets[1][1].ingredients),
        nutritionalInfo |-> IF Falsy(sets[1][1].nutritionalInfo) THEN NullText
                            ELSE JsonParse(sets[1][1].nutritionalInfo),
        imageGallery |-> IF Falsy(sets[1][1].imageGallery) THEN <<>>
                         ELSE JsonParse(sets[1][1].imageGallery),
        flavors |-> sets[2], sizes |-> sets[3], reviews |-> sets[4]]

(***************************************************************************)
(* relatedHandler (controller) and productRelated (service): parameters.   *)
(***************************************************************************)
\* paramsSchema: limit: z.coerce.number().int().min(1).max(10).optional()
LimitValid(limit) == IF limit = UndefinedNumber THEN TRUE ELSE limit >= 1 /\ limit <= 10

\* @limit INT = 4; limit: number = 4
DefaultLimit == 4

\* productRelated(validated.credential.idAccount, params.id, params.limit || 4)
relatedHandler(q) ==
  [idAccount |-> 1, idProduct |-> q.id, limit |-> NumberOr(q.limit, DefaultLimit)]

\* productRelated(idAccount, idProduct, limit = 4): the parameters of spProductRelated
productRelated(a) ==
  [a EXCEPT !.limit = IF a.limit = UndefinedNumber THEN DefaultLimit ELSE a.limit]

\* the parameters spProductRelated runs with
RelatedArguments(p) ==
  productRelated(IF args[p].via = "handler" THEN relatedHandler(args[p].request)
                 ELSE args[p].request)

(***************************************************************************)
(* spProductRelated.                                                       *)
(***************************************************************************)
\* SELECT @idCategory = [idCategory], @idConfectioner = [idConfectioner] FROM product
\* WHERE idProduct = @idProduct AND idAccount = @idAccount AND deleted = 0
\* (no row: both variables stay NULL)
ReferenceOf(a) ==
  IF ProductFound(a)
  THEN [idCategory |-> product[a.idProduct].idCategory,
        idConfectioner |-> product[a.idProduct].idConfectioner]
  ELSE [idCategory |-> NULL, idConfectioner |-> NULL]

\* the IF ... THROW chain of spProductRelated, in source order
RelatedError(a) ==
  IF a.idAccount = NULL THEN "idAccountRequired"
  ELSE IF a.idProduct = NULL THEN "idProductRequired"
  ELSE IF ReferenceOf(a).idCategory = NULL THEN "productNotFound"
  ELSE NoError

\* the same products with the reference product among them
Candidates_WithReference(a) ==
  { id \in DOMAIN product :
      /\ \E cnf \in confectioner :
           /\ cnf.idAccount = product[id].idAccount
           /\ cnf.idConfectioner = product[id].idConfectioner
           /\ cnf.deleted = 0
      /\ product[id].idAccount = a.idAccount
      /\ product[id].deleted = 0
      /\ product[id].active = 1
      /\ product[id].available = 1 }

\* the products of the account other than the reference that are listable,
\* available and of a confectioner that is not deleted
Candidates(a) ==
  { id \in DOMAIN product :
      /\ \E cnf \in confectioner :
           /\ cnf.idAccount = product[id].idAccount
           /\ cnf.idConfectioner = product[id].idConfectioner
           /\ cnf.deleted = 0
      /\ product[id].idAccount = a.idAccount
      /\ id # a.idProduct
      /\ product[id].deleted = 0
      /\ product[id].active = 1
      /\ product[id].available = 1 }

\* WITH [RelatedProducts] AS (... AND (idConfectioner = @idConfectioner OR idCategory = @idCategory))
RelatedProducts(a) ==
  { id \in Candidates(a) :
      \/ product[id].idConfectioner = ReferenceOf(a).idConfectioner
      \/ product[id].idCategory = ReferenceOf(a).idCategory }

\* CASE WHEN idConfectioner = @idConfectioner THEN 1 WHEN idCategory = @idCategory THEN 2 ELSE 3 END
Priority(id, a) ==
  IF product[id].idConfectioner = ReferenceOf(a).idConfectioner THEN 1
  ELSE IF product[id].idCategory = ReferenceOf(a).idCategory THEN 2
  ELSE 3

\* an order by rating and reviews that looks at the priority last
RelatedBefore_RatingFirst(x, y, a, scan) ==
  IF product[x].averageRating # product[y].averageRating
  THEN product[x].averageRating > product[y].averageRating
  ELSE IF product[x].totalReviews # product[y].totalReviews
  THEN product[x].totalReviews > product[y].totalReviews
  ELSE IF Priority(x, a) # Priority(y, a) THEN Priority(x, a) < Priority(y, a)
  ELSE IF scan = "ascending" THEN x < y ELSE x > y

\* ORDER BY [priority] ASC, [averageRating] DESC, [totalReviews] DESC
RelatedBefore(x, y, a, scan) ==
  IF Priority(x, a) # Priority(y, a) THEN Priority(x, a) < Priority(y, a)
  ELSE IF product[x].averageRating # product[y].averageRating
  THEN product[x].averageRating > product[y].averageRating
  ELSE IF product[x].totalReviews # product[y].totalReviews
  THEN product[x].totalReviews > product[y].totalReviews
  ELSE IF scan = "ascending" THEN x < y ELSE x > y

\* ORDER BY [prd].[averageRating] DESC, [prd].[totalReviews] DESC
BackfillBefore(x, y, scan) ==
  IF product[x].averageRating # product[y].averageRating
  THEN product[x].averageRating > product[y].averageRating
  ELSE IF product[x].totalReviews # product[y].totalReviews
  THEN product[x].totalReviews > product[y].totalReviews
  ELSE IF scan = "ascending" THEN x < y ELSE x > y

RECURSIVE RelatedOrdered(_, _, _)
RelatedOrdered(ids, a, scan) ==
  IF ids = {} THEN <<>>
  ELSE LET first == CHOOSE x \in ids : \A y \in ids \ {x} : RelatedBefore(x, y, a, scan)
       IN  <<first>> \o RelatedOrdered(ids \ {first}, a, scan)

RECURSIVE BackfillOrdered(_, _)
BackfillOrdered(ids, scan) ==
  IF ids = {} THEN <<>>
  ELSE LET first == CHOOSE x \in ids : \A y \in ids \ {x} : BackfillBefore(x, y, scan)
       IN  <<first>> \o BackfillOrdered(ids \ {first}, scan)

\* SELECT TOP (n)
Top(rows, n) == SubSeq(rows, 1, Min(n, Len(rows)))

\* the columns of a related product kept by the model
RelatedRow(id) ==
  [idProduct |-> id, idAccount |-> product[id].idAccount, name |-> product[id].name,
   basePrice |-> product[id].basePrice,
   promotionalPrice |-> product[id].promotionalPrice,
   averageRating |-> product[id].averageRating,
   totalReviews |-> product[id].totalReviews]

\* the first result set: SELECT TOP (@limit) ... FROM [RelatedProducts] ORDER BY ...
RelatedSet(a, scan) ==
  LET top == Top(RelatedOrdered(RelatedProducts(a), a, scan), a.limit)
  IN  [i \in 1 .. Len(top) |-> RelatedRow(top[i])]

\* @@ROWCOUNT as DECLARE @remaining reads it: the IF before it has reset it
RowCountAfterIf == 0

\* the second result set: SELECT TOP (@remaining) ... WHERE ... idProduct NOT IN
\* (SELECT idProduct FROM [RelatedProducts]) ORDER BY ...
BackfillSet(a, scan) ==
  LET top == Top(BackfillOrdered(Candidates(a) \ RelatedProducts(a), scan),
                 a.limit - RowCountAfterIf)
  IN  [i \in 1 .. Len(top) |-> RelatedRow(top[i])]

\* productRelated: return result[0].recordset
ProductRelatedResponse(sets) == [status |-> "ok", products |-> sets[1]]

(***************************************************************************)
(* getProductDetails: one call on connection p.                            *)
(* pc: idle -> get -> rows -> done, or -> done from a rejection.           *)
(***************************************************************************)
\* getHandler: the id fails paramsSchema; the error goes to next(error)
GetRequestRejected(p, q) ==
  /\ pc[p] = "idle"
  /\ ~IdValid(q.id)
  /\ args' = [args EXCEPT ![p] = [operation |-> "getProductDetails", via |-> "handler",
                                  request |-> q]]
  /\ result' = [result EXCEPT ![p] = Raised(NULL, "ZodError")]
  /\ pc' = [pc EXCEPT ![p] = "done"]
  /\ UNCHANGED <<cartVars, tableVars, recordsets>>

\* getHandler: the id passes paramsSchema and productGet is called
GetRequest(p, q) ==
  /\ pc[p] = "idle"
  /\ IdValid(q.id)
  /\ args' = [args EXCEPT ![p] = [operation |-> "getProductDetails", via |-> "handler",
                                  request |-> q]]
  /\ pc' = [pc EXCEPT ![p] = "get"]
  /\ UNCHANGED <<cartVars, tableVars, recordsets, result>>

\* productGet(idAccount, idProduct) is called
GetCall(p, a) ==
  /\ pc[p] = "idle"
  /\ args' = [args EXCEPT ![p] = [operation |-> "getProductDetails", via |-> "service",
                                  request |-> a]]
  /\ pc' = [pc EXCEPT ![p] = "get"]
  /\ UNCHANGED <<cartVars, tableVars, recordsets, result>>

\* spProductGet: THROW 51000 'idAccountRequired' / 'idProductRequired' / 'productNotFound'
GetThrow(p) ==
  /\ pc[p] = "get"
  /\ GetError(LookupOf(args[p])) # NoError
  /\ result' = [result EXCEPT ![p] =
                  Raised(BusinessErrorNumber, GetError(LookupOf(args[p])))]
  /\ pc' = [pc EXCEPT ![p] = "done"]
  /\ UNCHANGED <<cartVars, tableVars, recordsets, args>>

\* spProductGet: the four SELECT statements
GetSelect(p, scan) ==
  /\ pc[p] = "get"
  /\ GetError(LookupOf(args[p])) = NoError
  /\ recordsets' = [recordsets EXCEPT ![p] = DetailSets(LookupOf(args[p]), scan)]
  /\ pc' = [pc EXCEPT ![p] = "rows"]
  /\ UNCHANGED <<cartVars, tableVars, args, result>>

\* productGet builds its response from the result sets, or JSON.parse throws
GetReturn(p) ==
  /\ pc[p] = "rows"
  /\ result' = [result EXCEPT ![p] = ProductDetailsResponse(recordsets[p])]
  /\ pc' = [pc EXCEPT ![p] = "done"]
  /\ UNCHANGED <<cartVars, tableVars, args, recordsets>>

(***************************************************************************)
(* getRelatedProducts: one call on connection p.                           *)
(* pc: idle -> related -> backfill -> done, or -> done when the first      *)
(* result set is full or from a rejection.                                 *)
(***************************************************************************)
\* relatedHandler: id or limit fails paramsSchema; the error goes to next(error)
RelatedRequestRejected(p, q) ==
  /\ pc[p] = "idle"
  /\ ~(IdValid(q.id) /\ LimitValid(q.limit))
  /\ args' = [args EXCEPT ![p] = [operation |-> "getRelatedProducts", via |-> "handler",
                                  request |-> q]]
  /\ result' = [result EXCEPT ![p] = Raised(NULL, "ZodError")]
  /\ pc' = [pc EXCEPT ![p] = "done"]
  /\ UNCHANGED <<cartVars, tableVars, recordsets>>

\* relatedHandler: the parameters pass paramsSchema and productRelated is called
RelatedRequest(p, q) ==
  /\ pc[p] = "idle"
  /\ IdValid(q.id)
  /\ LimitValid(q.limit)
  /\ args' = [args EXCEPT ![p] = [operation |-> "getRelatedProducts", via |-> "handler",
                                  request |-> q]]
  /\ pc' = [pc EXCEPT ![p] = "related"]
  /\ UNCHANGED <<cartVars, tableVars, recordsets, result>>

\* productRelated(idAccount, idProduct, limit) is called
RelatedCall(p, a) ==
  /\ pc[p] = "idle"
  /\ args' = [args EXCEPT ![p] = [operation |-> "getRelatedProducts", via |-> "service",
                                  request |-> a]]
  /\ pc' = [pc EXCEPT ![p] = "related"]
  /\ UNCHANGED <<cartVars, tableVars, recordsets, result>>

\* spProductRelated: THROW 51000 'idAccountRequired' / 'idProductRequired' / 'productNotFound'
RelatedThrow(p) ==
  /\ pc[p] = "related"
  /\ RelatedError(RelatedArguments(p)) # NoError
  /\ result' = [result EXCEPT ![p] =
                  Raised(BusinessErrorNumber, RelatedError(RelatedArguments(p)))]
  /\ pc' = [pc EXCEPT ![p] = "done"]
  /\ UNCHANGED <<cartVars, tableVars, recordsets, args>>

\* spProductRelated: WITH [RelatedProducts] AS (...) SELECT TOP (@limit) ...;
\* IF (@@ROWCOUNT < @limit) is false: the procedure ends and productRelated
\* returns the first result set
RelatedFull(p, scan) ==
  /\ pc[p] = "related"
  /\ RelatedError(RelatedArguments(p)) = NoError
  /\ Len(RelatedSet(RelatedArguments(p), scan)) >= RelatedArguments(p).limit
  /\ recordsets' = [recordsets EXCEPT ![p] = <<RelatedSet(RelatedArguments(p), scan)>>]
  /\ result' = [result EXCEPT ![p] = ProductRelatedResponse(recordsets'[p])]
  /\ pc' = [pc EXCEPT ![p] = "done"]
  /\ UNCHANGED <<cartVars, tableVars, args>>

\* ... IF (@@ROWCOUNT < @limit) is true: the backfill statement is next
RelatedShort(p, scan) ==
  /\ pc[p] = "related"
  /\ RelatedError(RelatedArguments(p)) = NoError
  /\ Len(RelatedSet(RelatedArguments(p), scan)) < RelatedArguments(p).limit
  /\ recordsets' = [recordsets EXCEPT ![p] = <<RelatedSet(RelatedArguments(p), scan)>>]
  /\ pc' = [pc EXCEPT ![p] = "backfill"]
  /\ UNCHANGED <<cartVars, tableVars, args, result>>

\* spProductRelated: the backfill SELECT, taken over the products outside the
\* WITH clause's rows as the procedure is written to do; productRelated
\* returns the first result set
RelatedBackfill(p, scan) ==
  /\ pc[p] = "backfill"
  /\ recordsets' = [recordsets EXCEPT ![p] =
                      Append(@, BackfillSet(RelatedArguments(p), scan))]
  /\ result' = [result EXCEPT ![p] = ProductRelatedResponse(recordsets'[p])]
  /\ pc' = [pc EXCEPT ![p] = "done"]
  /\ UNCHANGED <<cartVars, tableVars, args>>

\* spProductRelated: the backfill SELECT names [RelatedProducts] in a later
\* statement than the one its WITH clause belongs to, so the engine finds no
\* such object and raises error 208; the request fails and productRelated
\* returns nothing.
RelatedBackfillFails(p) ==
  /\ pc[p] = "backfill"
  /\ result' = [result EXCEPT ![p] = Raised(208, "invalidObjectName")]
  /\ pc' = [pc EXCEPT ![p] = "done"]
  /\ UNCHANGED <<cartVars, tableVars, args, recordsets>>

(***************************************************************************)
(* Several tenants on one store: account 1 issues one request while the    *)
(* rows of account 2 change.                                               *)
(***************************************************************************)
\* rows with the rows of edit put in if they are not there and taken out if they are
Toggled(rows, edit) == IF edit \subseteq rows THEN rows \ edit ELSE rows \cup edit

\* rows of account 2 that carry ids of account 1's catalog
OtherTenantFlavorRow == [idAccount |-> 2, idProduct |-> 6, idFlavor |-> 1, available |-> 1]
OtherTenantSizeRow == [idAccount |-> 2, idProduct |-> 9, idSize |-> 1, available |-> 1]
\* confectioner 2 and category 2 are those of account 2's product 19;
\* confectioner 3 and category 3 are soft-deleted in account 1
OtherTenantConfectioners ==
  { [idAccount |-> 2, idConfectioner |-> c, deleted |-> 0] : c \in {2, 3} }
OtherTenantCategories ==
  { [idAccount |-> 2, idCategory |-> c, deleted |-> 0] : c \in {2, 3} }
OtherTenantReview ==
  [idAccount |-> 2, idProduct |-> 1, idReview |-> 5, rating |-> 1, dateCreated |-> 5,
   deleted |-> 0]
OtherTenantLine ==
  [idCart |-> 2, idAccount |-> 2, idUser |-> 1, idProduct |-> 1, idFlavor |-> 1,
   idSize |-> 1, quantity |-> 3, unitPrice |-> 10, totalPrice |-> 30,
   notes |-> NullNotes]

\* account 2 deletes or restores its product 19
OtherTenantEditsProduct ==
  /\ product' = [product EXCEPT ![19].deleted = 1 - @]
  /\ UNCHANGED <<productFlavor, productSize, size, confectioner, category, flavor, review,
                 cartVars, pc, args, result, recordsets>>

\* account 2 links or unlinks a flavor
OtherTenantEditsFlavors ==
  /\ productFlavor' = Toggled(productFlavor, {OtherTenantFlavorRow})
  /\ UNCHANGED <<product, productSize, size, confectioner, category, flavor, review,
                 cartVars, pc, args, result, recordsets>>

\* account 2 links or unlinks a size
OtherTenantEditsSizes ==
  /\ productSize' = Toggled(productSize, {OtherTenantSizeRow})
  /\ UNCHANGED <<product, productFlavor, size, confectioner, category, flavor, review,
                 cartVars, pc, args, result, recordsets>>

\* account 2 changes the price modifier of its size 1
OtherTenantPricesSize ==
  /\ size' = [size EXCEPT ![<<2, 1>>].priceModifier = IF @ = 0 THEN 7 ELSE 0]
  /\ UNCHANGED <<product, productFlavor, productSize, confectioner, category, flavor,
                 review, cartVars, pc, args, result, recordsets>>

\* account 2 registers or removes confectioners
OtherTenantEditsConfectioners ==
  /\ confectioner' = Toggled(confectioner, OtherTenantConfectioners)
  /\ UNCHANGED <<product, productFlavor, productSize, size, category, flavor, review,
                 cartVars, pc, args, result, recordsets>>

\* account 2 registers or removes categories
OtherTenantEditsCategories ==
  /\ category' = Toggled(category, OtherTenantCategories)
  /\ UNCHANGED <<product, productFlavor, productSize, size, confectioner, flavor, review,
                 cartVars, pc, args, result, recordsets>>

\* a customer of account 2 writes or withdraws a review
OtherTenantEditsReviews ==
  /\ review' = Toggled(review, {OtherTenantReview})
  /\ UNCHANGED <<product, productFlavor, productSize, size, confectioner, category, flavor,
                 cartVars, pc, args, result, recordsets>>

\* the requests of account 1
TenantListings ==
  { Params(1, WithFilters([NoFilters EXCEPT !.flavorIds = f, !.sizeIds = z],
                          UndefinedNumber), t) :
      f \in {Absent, Given(<<1>>)}, z \in {Absent, Given(<<1>>)},
      t \in {Undefined, "false"} }

TenantLookups == [idAccount : {1, NULL}, idProduct : {1, 6, 16, 19, 21, NULL}]

TenantQueries == [id : {0, 1, 16, 19, 21}]

TenantRelated ==
  [idAccount : {1, NULL}, idProduct : {1, 10, 16, 19, 21, NULL},
   limit : {UndefinedNumber, 2, 10}]

TenantRelatedQueries == [id : {0, 1, 16, 19, 21}, limit : {UndefinedNumber, 2, 11}]

TenantCartParams ==
  { [BaseParams EXCEPT !.idProduct = id] : id \in {1, 6, 9, 19} }
  \cup { [BaseParams EXCEPT !.quantity = 9] }

\* account 2 has a cart line for the user, product, flavor and size ids of
\* account 1's requests; account 1 has a line for them or none
TenantInit ==
  /\ product = ListedProduct
  /\ productFlavor = ListedFlavorRows
  /\ productSize = ListedSizeRows
  /\ size = DetailedSize
  /\ confectioner = ConfectionerRows
  /\ category = CategoryRows
  /\ flavor = FlavorRows
  /\ review = ReviewRows
  /\ uniqueKey = FALSE
  /\ cart \in { {OtherTenantLine}, {OtherTenantLine, EarlierLine} }
  /\ identity = 3
  /\ pc = [p \in Procs |-> "idle"]
  /\ args = [p \in Procs |-> NoArgs]
  /\ basePrice = [p \in Procs |-> NULL]
  /\ priceModifier = [p \in Procs |-> NULL]
  /\ idCart = [p \in Procs |-> NULL]
  /\ existingQuantity = [p \in Procs |-> NULL]
  /\ pending = [p \in Procs |-> NoRow]
  /\ result = [p \in Procs |-> NoResult]
  /\ lineAtStart = [p \in Procs |-> {}]
  /\ touched = [p \in Procs |-> FALSE]
  /\ calls = 0
  /\ recordsets = [p \in Procs |-> <<>>]

TenantNext ==
  \/ OtherTenantEditsProduct
  \/ OtherTenantEditsFlavors
  \/ OtherTenantEditsSizes
  \/ OtherTenantPricesSize
  \/ OtherTenantEditsConfectioners
  \/ OtherTenantEditsCategories
  \/ OtherTenantEditsReviews
  \/ \E params \in TenantListings : ListCall("p1", params)
  \/ \E scan \in ScanOrders : ListRows("p1", scan)
  \/ ListCount("p1")
  \/ ListCountFails("p1")
  \/ \E q \in TenantQueries : GetRequestRejected("p1", q)
  \/ \E q \in TenantQueries : GetRequest("p1", q)
  \/ \E a \in TenantLookups : GetCall("p1", a)
  \/ GetThrow("p1")
  \/ \E scan \in ScanOrders : GetSelect("p1", scan)
  \/ GetReturn("p1")
  \/ \E q \in TenantRelatedQueries : RelatedRequestRejected("p1", q)
  \/ \E q \in TenantRelatedQueries : RelatedRequest("p1", q)
  \/ \E a \in TenantRelated : RelatedCall("p1", a)
  \/ RelatedThrow("p1")
  \/ \E scan \in ScanOrders : RelatedFull("p1", scan)
  \/ \E scan \in ScanOrders : RelatedShort("p1", scan)
  \/ \E scan \in ScanOrders : RelatedBackfill("p1", scan)
  \/ RelatedBackfillFails("p1")
  \/ \E params \in TenantCartParams : Rejected("p1", params)
  \/ \E params \in TenantCartParams : Accepted("p1", params)
  \/ ReadPrices("p1")
  \/ LookupMissed("p1")
  \/ LookupFound("p1")
  \/ ThrowQuantityExceedsLimit("p1")
  \/ Update("p1")
  \/ Insert("p1")
  \/ Commit("p1")
  \/ SelectResult("p1")

TenantSpec == TenantInit /\ [][TenantNext]_vars

(***************************************************************************)
(* Properties of listProducts.                                             *)
(***************************************************************************)
\* the listProducts call on connection p has returned a response
Listed(p) == pc[p] = "done" /\ result[p].status = "ok"

\* the product ids of the rows a response carries, in their order
ReturnedIds(response) ==
  [i \in 1 .. Len(response.products) |-> response.products[i].idProduct]

\* a set of ids was supplied and id is in it, or none was supplied
SuppliedHas(ids, id) ==
  IF ids = Absent THEN TRUE ELSE \E i \in 1 .. Len(ids[1]) : ids[1][i] = id

\* the availability toggle the caller supplied: "true", "false" or Undefined
SuppliedToggle(a) ==
  IF a.via = "service" THEN a.request.availableOnly
  ELSE IF a.request.availableOnly = UndefinedNumber THEN Undefined
  ELSE IF a.request.availableOnly = 1 THEN "true" ELSE "false"

\* the products of account acct that are listable and pass every filter the
\* request req supplies, the toggle being on or off
Matching(acct, req, toggle) ==
  { id \in DOMAIN product :
      /\ product[id].idAccount = acct
      /\ product[id].deleted = 0
      /\ product[id].active = 1
      /\ \E cnf \in confectioner :
           /\ cnf.idAccount = acct
           /\ cnf.idConfectioner = product[id].idConfectioner
           /\ cnf.deleted = 0
      /\ \E cat \in category :
           /\ cat.idAccount = acct
           /\ cat.idCategory = product[id].idCategory
           /\ cat.deleted = 0
      /\ SuppliedHas(req.categoryIds, product[id].idCategory)
      /\ SuppliedHas(req.confectionerIds, product[id].idConfectioner)
      /\ (IF req.flavorIds = Absent THEN TRUE
          ELSE \E r \in productFlavor :
                 /\ r.idAccount = acct /\ r.idProduct = id /\ r.available = 1
                 /\ SuppliedHas(req.flavorIds, r.idFlavor))
      /\ (IF req.sizeIds = Absent THEN TRUE
          ELSE \E r \in productSize :
                 /\ r.idAccount = acct /\ r.idProduct = id /\ r.available = 1
                 /\ SuppliedHas(req.sizeIds, r.idSize))
      /\ (IF req.minPrice = UndefinedNumber THEN TRUE
          ELSE product[id].basePrice >= req.minPrice)
      /\ (IF req.maxPrice = UndefinedNumber THEN TRUE
          ELSE product[id].basePrice <= req.maxPrice)
      /\ (IF req.searchTerm = Absent THEN TRUE
          ELSE \/ Like(product[id].name, req.searchTerm[1])
               \/ Like(product[id].description, req.searchTerm[1])
               \/ Like(product[id].ingredients, req.searchTerm[1]))
      /\ (IF toggle = "true" THEN product[id].available = 1 ELSE TRUE) }

\* C11: whenever listProducts returns for a request that supplies the
\* availability toggle and any combination of the other filters, every row
\* returned is a listable product of the requesting tenant that passes every
\* supplied filter, and totalCount is the number of all such products.
C11_ReturnedSatisfyFilters ==
  \A p \in Procs :
    (Listed(p) /\ SuppliedToggle(args[p]) # Undefined) =>
      LET matching == Matching(ParamsOf(args[p]).idAccount, args[p].request,
                               SuppliedToggle(args[p]))
      IN  /\ \A i \in 1 .. Len(result[p].products) :
                ReturnedIds(result[p])[i] \in matching
          /\ result[p].totalCount = Cardinality(matching)

\* C11 with the price bounds left out of the request: the other filters, the
\* tenant and the listable conditions are applied as stated
C11_HoldsWithoutZeroBound ==
  \A p \in Procs :
    (/\ Listed(p) /\ SuppliedToggle(args[p]) # Undefined
     /\ args[p].request.minPrice # 0 /\ args[p].request.maxPrice # 0) =>
      LET matching == Matching(ParamsOf(args[p]).idAccount, args[p].request,
                               SuppliedToggle(args[p]))
      IN  /\ \A i \in 1 .. Len(result[p].products) :
                ReturnedIds(result[p])[i] \in matching
          /\ result[p].totalCount = Cardinality(matching)

\* the elements of a sequence of ids
Range(ids) == { ids[i] : i \in 1 .. Len(ids) }

\* C12: when page 1 and page 2 of a listing of two pages have both been
\* returned, over an unchanged catalog, their rows put together carry exactly
\* totalCount product ids, each matching product once and no product twice.
C12_PagesPartitionListing ==
  (/\ Listed("p1") /\ Listed("p2")
   /\ args["p1"].request = [args["p2"].request EXCEPT !.page = 1]
   /\ args["p2"].request.page = 2
   /\ result["p1"].totalPages = 2) =>
    LET ids == ReturnedIds(result["p1"]) \o ReturnedIds(result["p2"])
    IN  /\ Len(ids) = result["p1"].totalCount
        /\ Cardinality(Range(ids)) = Len(ids)
        /\ Range(ids) = FilteredProducts(ListArguments("p1"))

\* the call on connection p supplied a page size that is none of 12, 24, 36
OddPageSize(p) ==
  /\ pc[p] = "done"
  /\ args[p].request.pageSize # UndefinedNumber
  /\ args[p].request.pageSize \notin PageSizes

\* the procedure parameters of the call on p had it asked for 12 rows a page
WithTwelve(p) == [ListArguments(p) EXCEPT !.pageSize = 12]

\* C13: a listProducts request whose pageSize is outside {12, 24, 36} ends
\* without an error, with the rows, totalCount and totalPages of the same
\* request for pageSize 12, and reports a pageSize of 12.
C13_OddPageSizeActsAsTwelve ==
  \A p \in Procs :
    OddPageSize(p) =>
      /\ result[p].status = "ok"
      /\ \E scan \in ScanOrders : result[p].products = ProductsPage(WithTwelve(p), scan)
      /\ result[p].totalCount = Pagination(WithTwelve(p))[1].totalCount
      /\ result[p].totalPages = Pagination(WithTwelve(p))[1].totalPages
      /\ result[p].pageSize = 12

\* C13, the part the procedure delivers: whenever such a request is answered,
\* rows, totalCount and totalPages are those of pageSize 12
C13_AnsweredAsForTwelve ==
  \A p \in Procs :
    (OddPageSize(p) /\ Listed(p)) =>
      /\ \E scan \in ScanOrders : result[p].products = ProductsPage(WithTwelve(p), scan)
      /\ result[p].totalCount = Pagination(WithTwelve(p))[1].totalCount
      /\ result[p].totalPages = Pagination(WithTwelve(p))[1].totalPages

\* C13, the reported page size alone
C13_ReportsTwelve ==
  \A p \in Procs : (OddPageSize(p) /\ Listed(p)) => result[p].pageSize = 12

\* the criterion of a sort key on a returned row, as a number that sorts
\* ascending: rating descending for relevance and top rated, base price
\* ascending or descending for the two price keys
RowCriterion(row, sortBy) ==
  IF sortBy \in {"relevancia", "melhor_avaliados"} THEN 0 - row.averageRating
  ELSE IF sortBy = "preco_menor" THEN row.basePrice
  ELSE IF sortBy = "preco_maior" THEN 0 - row.basePrice
  ELSE 0

\* rows are in the order of the criterion, and by name ascending within it
InOrder(rows, sortBy) ==
  \A i, j \in 1 .. Len(rows) :
    i < j =>
      /\ RowCriterion(rows[i], sortBy) <= RowCriterion(rows[j], sortBy)
      /\ (RowCriterion(rows[i], sortBy) = RowCriterion(rows[j], sortBy)
            => (rows[i].name = rows[j].name \/ TextBefore(rows[i].name, rows[j].name)))

\* C14: the rows of every listProducts response are ordered by the criterion
\* of the sort key and by name ascending among rows equal on it, and two
\* identical requests on an unchanged catalog return the same sequence.
C14_OrderIsDetermined ==
  /\ \A p \in Procs :
       Listed(p) => InOrder(result[p].products, ListArguments(p).sortBy)
  /\ (Listed("p1") /\ Listed("p2") /\ args["p1"] = args["p2"])
       => result["p1"].products = result["p2"].products

\* C14, the ordering alone: criterion first, then name ascending
C14_OrderedByCriterionThenName ==
  \A p \in Procs :
    Listed(p) => InOrder(result[p].products, ListArguments(p).sortBy)

\* the response on p carries or counts nothing it would not with the toggle on
AsWithToggleOn(p) ==
  /\ \A i \in 1 .. Len(result[p].products) : result[p].products[i].available = 1
  /\ result[p].totalCount =
       Cardinality(FilteredProducts([ListArguments(p) EXCEPT !.availableOnly = 1]))

\* C15: a listProducts request that leaves the availability toggle out is
\* answered as with the toggle on, no unavailable product returned or
\* counted; unavailable products are returned only when the toggle was
\* explicitly set to false.
C15_ToggleDefaultsToTrue ==
  \A p \in Procs :
    (Listed(p) /\ SuppliedToggle(args[p]) # "false") => AsWithToggleOn(p)

\* C15 for productList called directly, where the toggle left out is sent as 1
C15_DirectCallDefaultsToTrue ==
  \A p \in Procs :
    (Listed(p) /\ args[p].via = "service" /\ SuppliedToggle(args[p]) # "false")
      => AsWithToggleOn(p)

\* product id has a row in rows (productFlavor or productSize) whose option,
\* read by option(row), is in the supplied set and whose available flag is set
HasAvailableOption(id, rows, option(_), ids) ==
  \E r \in rows :
    /\ r.idAccount = product[id].idAccount
    /\ r.idProduct = id
    /\ r.available = 1
    /\ SuppliedHas(ids, option(r))

FlavorOf(r) == r.idFlavor
SizeOf(r) == r.idSize

\* the products the request of p matches when its flavor and size filters are
\* taken out, cut down to those with an available option in each supplied set
WithAvailableOptions(p) ==
  { id \in FilteredProducts([ListArguments(p) EXCEPT !.flavorIds = Absent,
                                                      !.sizeIds = Absent]) :
      /\ (args[p].request.flavorIds # Absent =>
            HasAvailableOption(id, productFlavor, FlavorOf, args[p].request.flavorIds))
      /\ (args[p].request.sizeIds # Absent =>
            HasAvailableOption(id, productSize, SizeOf, args[p].request.sizeIds)) }

\* the request of p supplies a flavor set or a size set and asks for a first
\* page that holds every match
OptionsFiltered(p) ==
  /\ Listed(p)
  /\ args[p].request.flavorIds # Absent \/ args[p].request.sizeIds # Absent
  /\ ListArguments(p).page = 1
  /\ result[p].totalCount <= EffectivePageSize(ListArguments(p).pageSize)

IsSlice(rows, ordered, first, count) ==
  /\ Len(rows) <= count
  /\ \A i \in 1 .. Len(rows) :
       first + i - 1 <= Len(ordered) /\ rows[i] = ordered[first + i - 1]
  /\ Len(rows) < count => first + Len(rows) > Len(ordered)

\* pages is the least number of pages of perPage rows that hold count rows
IsCeiling(pages, count, perPage) ==
  pages * perPage >= count /\ (pages - 1) * perPage < count

NothingMatches(p) ==
  /\ pc[p] = "done"
  /\ result[p] # Raised(NULL, "ZodError")
  /\ ListError(ListArguments(p)) = NoError
  /\ FilteredProducts(ListArguments(p)) = {}

\* C18: listProducts fails with a validation error when the tenant id is
\* absent; a request whose filters match no product does not fail: it
\* returns an empty product sequence and totalCount 0.
C18_EmptyListingIsNoFailure ==
  \A p \in Procs :
    /\ (pc[p] = "done" /\ ParamsOf(args[p]).idAccount = NULL)
         => result[p] = Raised(BusinessErrorNumber, "idAccountRequired")
    /\ NothingMatches(p)
         => /\ result[p].status = "ok"
            /\ result[p].products = <<>>
            /\ result[p].totalCount = 0

\* C18, the tenant check alone
C18_TenantRequired ==
  \A p \in Procs :
    (pc[p] = "done" /\ ParamsOf(args[p]).idAccount = NULL)
      => result[p] = Raised(BusinessErrorNumber, "idAccountRequired")

\* C18, what a response carries when nothing matches
C18_EmptyWhenAnswered ==
  \A p \in Procs :
    (NothingMatches(p) /\ Listed(p))
      => result[p].products = <<>> /\ result[p].totalCount = 0

(***************************************************************************)
(* Properties of the tenants sharing one store.                            *)
(***************************************************************************)
\* the operation of the call on connection p
OperationOf(p) ==
  IF "operation" \in DOMAIN args[p] THEN args[p].operation ELSE "addToCart"

\* the call on p has finished and was not refused by its controller
Answered(p, operation) ==
  /\ pc[p] = "done"
  /\ OperationOf(p) = operation
  /\ result[p] # Raised(NULL, "ZodError")

\* every row of a result set belongs to account acct
RowsOf(rows, acct) == \A i \in 1 .. Len(rows) : rows[i].idAccount = acct

\* the listProducts answer on p holds rows of its tenant only, and is an
\* answer the same request has in the store as it is now
ListIsolated(p) ==
  (Answered(p, "listProducts") /\ Listed(p)) =>
    /\ \A i \in 1 .. Len(result[p].products) :
         product[result[p].products[i].idProduct].idAccount = ListArguments(p).idAccount
    /\ \E scan \in ScanOrders :
         result[p].products = ProductsPage(ListArguments(p), scan)
    /\ result[p].totalCount = Pagination(ListArguments(p))[1].totalCount
    /\ result[p].totalPages = Pagination(ListArguments(p))[1].totalPages

\* the same for getProductDetails, failures included
DetailsIsolated(p) ==
  Answered(p, "getProductDetails") =>
    LET a == LookupOf(args[p])
    IN  /\ IF GetError(a) # NoError
           THEN result[p] = Raised(BusinessErrorNumber, GetError(a))
           ELSE \E scan \in ScanOrders :
                  result[p] = ProductDetailsResponse(DetailSets(a, scan))
        /\ result[p].status = "ok" =>
             /\ result[p].product.idAccount = a.idAccount
             /\ RowsOf(result[p].flavors, a.idAccount)
             /\ RowsOf(result[p].sizes, a.idAccount)
             /\ RowsOf(result[p].reviews, a.idAccount)

\* the same for getRelatedProducts
RelatedIsolated(p) ==
  Answered(p, "getRelatedProducts") =>
    LET a == RelatedArguments(p)
    IN  /\ IF RelatedError(a) # NoError
           THEN result[p] = Raised(BusinessErrorNumber, RelatedError(a))
           ELSE \E scan \in ScanOrders :
                  \/ result[p] = ProductRelatedResponse(<<RelatedSet(a, scan)>>)
                  \/ /\ result[p] = Raised(208, "invalidObjectName")
                     /\ Len(RelatedSet(a, scan)) < a.limit
        /\ result[p].status = "ok" => RowsOf(result[p].products, a.idAccount)

\* addToCart on p was let through or refused as the rows of its own account
\* say, read its prices from them, merged into a line of its account only and
\* wrote a line of its account only, leaving the other account's line for
\* the same ids as it was
CartIsolated(p) ==
  (pc[p] # "idle" /\ OperationOf(p) = "addToCart") =>
    /\ IF result[p].status = "error" /\ result[p].message # "quantityExceedsLimit"
       THEN result[p] = Raised(BusinessErrorNumber, ValidationError(cartAdd(args[p])))
       ELSE ValidationError(cartAdd(args[p])) = NoError
    /\ idCart[p] # NULL =>
         \A r \in cart : r.idCart = idCart[p] => r.idAccount = args[p].idAccount
    /\ existingQuantity[p] # NULL => existingQuantity[p] = EarlierLine.quantity
    /\ basePrice[p] # NULL =>
         /\ product[args[p].idProduct].idAccount = args[p].idAccount
         /\ basePrice[p] = EffectivePrice(product[args[p].idProduct])
    /\ priceModifier[p] # NULL =>
         priceModifier[p] = size[<<args[p].idAccount, args[p].idSize>>].priceModifier
    /\ pending[p] # NoRow => pending[p].idAccount = args[p].idAccount
    /\ OtherTenantLine \in cart
    /\ \A r \in cart \ {OtherTenantLine} : r.idAccount = args[p].idAccount
    /\ result[p].status = "ok" =>
         result[p].quantity =
           args[p].quantity + (IF existingQuantity[p] = NULL THEN 0 ELSE existingQuantity[p])

\* C19: whatever listProducts, getProductDetails and getRelatedProducts
\* answer for a tenant holds rows of that tenant only and stays an answer of
\* the same request however the rows of the other tenant change; addToCart
\* for a tenant reads the prices and option rows of that tenant and writes
\* only a line of that tenant.
C19_TenantIsolation ==
  /\ ListIsolated("p1")
  /\ DetailsIsolated("p1")
  /\ RelatedIsolated("p1")
  /\ CartIsolated("p1")

\* account 1 got its details of product 1, with the reviews of account 1,
\* and the other account has since linked a flavor to a product id of
\* account 1 and reviewed product id 1
C19_Witness ==
  /\ Answered("p1", "getProductDetails")
  /\ result["p1"].status = "ok"
  /\ result["p1"].product.idProduct = 1
  /\ Len(result["p1"].reviews) = 2
  /\ OtherTenantReview \in review
  /\ OtherTenantFlavorRow \in productFlavor
  /\ product[19].deleted = 1

(***************************************************************************)
(* Properties of getProductDetails and getRelatedProducts.                 *)
(***************************************************************************)
\* the failure for a product that is not there for the caller
NotFoundError == Raised(BusinessErrorNumber, "productNotFound")

\* the account and product id the call on p asks about
AskedOf(p) ==
  IF OperationOf(p) = "getRelatedProducts" THEN RelatedArguments(p) ELSE LookupOf(args[p])

\* the call on p is a finished getProductDetails or getRelatedProducts that
\* named an account and a product id
LookedUp(p) ==
  /\ Answered(p, "getProductDetails") \/ Answered(p, "getRelatedProducts")
  /\ AskedOf(p).idAccount # NULL
  /\ AskedOf(p).idProduct # NULL

\* no product has the id; the product is soft-deleted; the product belongs
\* to another tenant
Missing(a) == a.idProduct \notin DOMAIN product
SoftDeleted(a) ==
  /\ a.idProduct \in DOMAIN product
  /\ product[a.idProduct].idAccount = a.idAccount
  /\ product[a.idProduct].deleted = 1
OtherTenants(a) ==
  /\ a.idProduct \in DOMAIN product
  /\ product[a.idProduct].idAccount # a.idAccount

\* C20: getProductDetails and getRelatedProducts fail with one and the same
\* not-found error when the product id does not exist, when the product is
\* soft-deleted and when it belongs to another tenant, and with no
\* not-found error in any other case.
C20_NotFoundInThreeCases ==
  \A p \in Procs :
    LookedUp(p) =>
      IF Missing(AskedOf(p)) \/ SoftDeleted(AskedOf(p)) \/ OtherTenants(AskedOf(p))
      THEN result[p] = NotFoundError
      ELSE ~(result[p].status = "error" /\ result[p].message = "productNotFound")

\* getRelatedProducts was asked by account 1 about product 19, a product of
\* account 2 that is not deleted, and failed with the not-found error
C20_Witness ==
  /\ Answered("p1", "getRelatedProducts")
  /\ AskedOf("p1").idAccount = 1
  /\ AskedOf("p1").idProduct = 19
  /\ product[19].idAccount = 2
  /\ product[19].deleted = 0
  /\ result["p1"] = NotFoundError


(***************************************************************************)
(* getProductDetails on its own: one call for any product of the catalog.  *)
(***************************************************************************)
\* productGet(idAccount, idProduct) for every product id and an id nobody has
DetailLookups == [idAccount : {1, 2}, idProduct : ListedProducts \cup {21}]

\* GET /product/:id
DetailQueries == [id : 0 .. 21]

DetailsInit ==
  /\ TenantInit
  /\ cart = {OtherTenantLine}

DetailsNext ==
  \/ \E q \in DetailQueries : GetRequestRejected("p1", q)
  \/ \E q \in DetailQueries : GetRequest("p1", q)
  \/ \E a \in DetailLookups : GetCall("p1", a)
  \/ GetThrow("p1")
  \/ \E scan \in ScanOrders : GetSelect("p1", scan)
  \/ GetReturn("p1")

DetailsSpec == DetailsInit /\ [][DetailsNext]_vars

(***************************************************************************)
(* Properties of the response of getProductDetails.                        *)
(***************************************************************************)
\* getProductDetails on connection p has returned a product
Detailed(p) ==
  /\ Answered(p, "getProductDetails")
  /\ result[p].status = "ok"

\* the product row the call on p was answered from
StoredProduct(p) == product[LookupOf(args[p]).idProduct]

\* a serialized column that holds nothing: NULL or the empty text
NotStored(text) == text = NullText \/ text = <<>>

\* the list or value a stored document stands for: what is between its brackets
Decoded(text) == SubSeq(text, 2, Len(text) - 1)

\* C21: on success getProductDetails returns ingredients and imageGallery as
\* lists, the empty list when nothing is stored for them, and nutritionalInfo
\* as the decoded value when it is stored and null when it is not.
C21_SerializedFieldsDecoded ==
  \A p \in Procs :
    Detailed(p) =>
      /\ result[p].ingredients =
           IF NotStored(StoredProduct(p).ingredients) THEN <<>>
           ELSE Decoded(StoredProduct(p).ingredients)
      /\ result[p].imageGallery =
           IF NotStored(StoredProduct(p).imageGallery) THEN <<>>
           ELSE Decoded(StoredProduct(p).imageGallery)
      /\ result[p].nutritionalInfo =
           IF NotStored(StoredProduct(p).nutritionalInfo) THEN NullText
           ELSE Decoded(StoredProduct(p).nutritionalInfo)

\* the same for the image gallery and the nutritional information alone
C21_GalleryAndNutritionDecoded ==
  \A p \in Procs :
    Detailed(p) =>
      /\ result[p].imageGallery =
           IF NotStored(StoredProduct(p).imageGallery) THEN <<>>
           ELSE Decoded(StoredProduct(p).imageGallery)
      /\ result[p].nutritionalInfo =
           IF NotStored(StoredProduct(p).nutritionalInfo) THEN NullText
           ELSE Decoded(StoredProduct(p).nutritionalInfo)

\* the same for the ingredients of a product that has ingredients stored
C21_StoredIngredientsDecoded ==
  \A p \in Procs :
    (Detailed(p) /\ ~NotStored(StoredProduct(p).ingredients)) =>
      result[p].ingredients = Decoded(StoredProduct(p).ingredients)


(***************************************************************************)
(* getRelatedProducts on its own: one call over one of several catalogs.   *)
(***************************************************************************)
\* the listed catalog with products 3 .. 13 unavailable: three products of
\* account 1 besides the reference can be suggested
SparseProduct ==
  [id \in ListedProducts |->
     IF id \in 3 .. 13 THEN [ListedProduct[id] EXCEPT !.available = 0]
     ELSE ListedProduct[id]]

\* the listed catalog with products 12 and 13 reviewed equally often and
\* products 7 and 8 too
TiedProduct ==
  [id \in ListedProducts |->
     IF id \in {8, 13} THEN [ListedProduct[id] EXCEPT !.totalReviews = id - 1]
     ELSE ListedProduct[id]]

RelatedCatalogs == { ListedProduct, SparseProduct, TiedProduct }

\* productRelated(idAccount, idProduct, limit)
RelatedCalls ==
  [idAccount : {1, NULL}, idProduct : {1, 7, 10, 18, 16, 21},
   limit : {UndefinedNumber, 1, 2, 3, 8, 10}]

\* GET /product/:id/related?limit=
RelatedQueries == [id : {0, 1, 10, 18}, limit : {UndefinedNumber, 1, 5, 10, 11}]

RelatedInit ==
  /\ product \in RelatedCatalogs
  /\ productFlavor = ListedFlavorRows
  /\ productSize = ListedSizeRows
  /\ size = DetailedSize
  /\ confectioner = ConfectionerRows
  /\ category = CategoryRows
  /\ flavor = FlavorRows
  /\ review = ReviewRows
  /\ uniqueKey = FALSE
  /\ cart = {}
  /\ identity = 1
  /\ pc = [p \in Procs |-> "idle"]
  /\ args = [p \in Procs |-> NoArgs]
  /\ basePrice = [p \in Procs |-> NULL]
  /\ priceModifier = [p \in Procs |-> NULL]
  /\ idCart = [p \in Procs |-> NULL]
  /\ existingQuantity = [p \in Procs |-> NULL]
  /\ pending = [p \in Procs |-> NoRow]
  /\ result = [p \in Procs |-> NoResult]
  /\ lineAtStart = [p \in Procs |-> {}]
  /\ touched = [p \in Procs |-> FALSE]
  /\ calls = 0
  /\ recordsets = [p \in Procs |-> <<>>]

RelatedNext ==
  \/ \E q \in RelatedQueries : RelatedRequestRejected("p1", q)
  \/ \E q \in RelatedQueries : RelatedRequest("p1", q)
  \/ \E a \in RelatedCalls : RelatedCall("p1", a)
  \/ RelatedThrow("p1")
  \/ \E scan \in ScanOrders : RelatedFull("p1", scan)
  \/ \E scan \in ScanOrders : RelatedShort("p1", scan)
  \/ \E scan \in ScanOrders : RelatedBackfill("p1", scan)
  \/ RelatedBackfillFails("p1")

RelatedSpec == RelatedInit /\ [][RelatedNext]_vars

(***************************************************************************)
(* Properties of the products getRelatedProducts suggests.                 *)
(***************************************************************************)
\* getRelatedProducts on connection p has returned products
Suggested(p) ==
  /\ Answered(p, "getRelatedProducts")
  /\ result[p].status = "ok"

\* the rows spProductRelated has sent on p, in the order it sent them
Emitted(p) ==
  IF Len(recordsets[p]) = 2 THEN recordsets[p][1] \o recordsets[p][2]
  ELSE recordsets[p][1]

\* product id has the confectioner or the category of product ref
Shares(id, ref) ==
  \/ product[id].idConfectioner = product[ref].idConfectioner
  \/ product[id].idCategory = product[ref].idCategory

\* rows has no product ref, no product twice, and every product that shares
\* something with ref before every product that shares nothing
WellFormed(rows, ref) ==
  /\ \A i \in 1 .. Len(rows) : rows[i].idProduct # ref
  /\ \A i, j \in 1 .. Len(rows) : i # j => rows[i].idProduct # rows[j].idProduct
  /\ \A i, j \in 1 .. Len(rows) :
       (Shares(rows[i].idProduct, ref) /\ ~Shares(rows[j].idProduct, ref)) => i < j

Referenced(p) ==
  /\ Answered(p, "getRelatedProducts")
  /\ RelatedError(RelatedArguments(p)) = NoError

\* the active, available, non-deleted products of the tenant other than the reference
Eligible(a) ==
  { id \in DOMAIN product :
      /\ product[id].idAccount = a.idAccount
      /\ id # a.idProduct
      /\ product[id].deleted = 0
      /\ product[id].active = 1
      /\ product[id].available = 1 }

\* C23: getRelatedProducts returns exactly min(limit, N) products, N the
\* number of active, available, non-deleted products of the tenant other than
\* the reference: fewer related products than limit are backfilled with the
\* remaining eligible products.
C23_ReturnsMinOfLimitAndEligible ==
  \A p \in Procs :
    Referenced(p) =>
      /\ result[p].status = "ok"
      /\ Len(result[p].products) =
           Min(RelatedArguments(p).limit, Cardinality(Eligible(RelatedArguments(p))))

\* the same with N counting only the products whose confectioner is not deleted
C23_ReturnsMinOfLimitAndCandidates ==
  \A p \in Procs :
    Referenced(p) =>
      /\ result[p].status = "ok"
      /\ Len(result[p].products) =
           Min(RelatedArguments(p).limit, Cardinality(Candidates(RelatedArguments(p))))

\* the same for the calls the procedure answers, failures of the backfill left out
C23_AnsweredReturnMinOfLimitAndCandidates ==
  \A p \in Procs :
    (Referenced(p) /\ result[p].status = "ok") =>
      Len(result[p].products) =
        Min(RelatedArguments(p).limit, Cardinality(Candidates(RelatedArguments(p))))

\* a call that finds limit related products or more returns limit products
C23_ExactWhenRelatedSuffice ==
  \A p \in Procs :
    (Referenced(p) /\
       Cardinality(RelatedProducts(RelatedArguments(p))) >= RelatedArguments(p).limit) =>
      /\ result[p].status = "ok"
      /\ Len(result[p].products) = RelatedArguments(p).limit


(***************************************************************************)
(* Properties of the related phase of getRelatedProducts.                  *)
(***************************************************************************)
\* spProductRelated has sent its first result set on connection p
RelatedPhaseDone(p) ==
  /\ OperationOf(p) = "getRelatedProducts"
  /\ Len(recordsets[p]) >= 1

\* 1 for a product of the reference's confectioner, 2 for any other product
Tier(id, ref) ==
  IF product[id].idConfectioner = product[ref].idConfectioner THEN 1 ELSE 2

\* product x comes strictly before product y: tier first, then the higher
\* average rating, then the higher review count
Precedes(x, y, ref) ==
  IF Tier(x, ref) # Tier(y, ref) THEN Tier(x, ref) < Tier(y, ref)
  ELSE IF product[x].averageRating # product[y].averageRating
  THEN product[x].averageRating > product[y].averageRating
  ELSE product[x].totalReviews > product[y].totalReviews

\* the products that can be suggested and share the reference's confectioner or category
Sharing(a) == { id \in Candidates(a) : Shares(id, a.idProduct) }

\* C24: in the related phase every product of the reference's confectioner
\* precedes every product sharing only its category, products of one tier
\* are ordered by average rating descending, then review count descending,
\* and the phase returns the top limit candidates of that order.
C24_RelatedPhaseOrderedTopLimit ==
  \A p \in Procs :
    RelatedPhaseDone(p) =>
      LET a    == RelatedArguments(p)
          rows == [i \in 1 .. Len(recordsets[p][1]) |-> recordsets[p][1][i].idProduct]
          sent == { rows[i] : i \in 1 .. Len(rows) }
      IN  /\ \A i, j \in 1 .. Len(rows) : i < j => ~Precedes(rows[j], rows[i], a.idProduct)
          /\ \A i, j \in 1 .. Len(rows) : i # j => rows[i] # rows[j]
          /\ sent \subseteq Sharing(a)
          /\ Len(rows) = Min(a.limit, Cardinality(Sharing(a)))
          /\ \A x \in Sharing(a) \ sent : \A y \in sent : ~Precedes(x, y, a.idProduct)

\* a related phase cut at the limit that holds products of both tiers, one of
\* the second tier better rated than one of the first
C24_Witness ==
  \E p \in Procs :
    /\ RelatedPhaseDone(p)
    /\ Len(recordsets[p][1]) = RelatedArguments(p).limit
    /\ Len(recordsets[p][1]) < Cardinality(Sharing(RelatedArguments(p)))
    /\ \E i, j \in 1 .. Len(recordsets[p][1]) :
         /\ i < j
         /\ Tier(recordsets[p][1][i].idProduct, RelatedArguments(p).idProduct) = 1
         /\ Tier(recordsets[p][1][j].idProduct, RelatedArguments(p).idProduct) = 2
         /\ recordsets[p][1][i].averageRating < recordsets[p][1][j].averageRating


(***************************************************************************)
(* Controllers: what the caller is told when the service throws.           *)
(***************************************************************************)
\* StatusGeneralError = { statusCode: 500, message: 'Internal Server Error', code: 'INTERNAL_ERROR' }
StatusGeneralError ==
  [statusCode |-> 500, code |-> "INTERNAL_ERROR", message |-> "Internal Server Error"]

\* res.status(400).json(errorResponse(error.message))
errorResponse(message) ==
  [statusCode |-> 400, code |-> "VALIDATION_ERROR", message |-> message]

\* a catch block that answers every error as a rejected request
HandlerCatch_AlwaysBadRequest(error) == errorResponse(error.message)

\* catch (error) { if (error.number === 51000) res.status(400)... else next(StatusGeneralError) }
HandlerCatch(error) ==
  IF error.number = BusinessErrorNumber THEN errorResponse(error.message)
  ELSE StatusGeneralError

(***************************************************************************)
(* Properties of failures.                                                 *)
(***************************************************************************)
\* the call on p has failed because the store failed: a deadlock or timeout
\* inside the transaction, or the key constraint refusing the INSERT
StoreFailed(p) ==
  /\ Failed(p)
  /\ result[p].message \in {"deadlock", "duplicateKey"}

\* the call on p has failed because a precondition or the ceiling refused it
RuleFailed(p) ==
  /\ Failed(p)
  /\ \/ result[p].message = ValidationError(cartAdd(args[p]))
     \/ result[p].message = "quantityExceedsLimit"

LineOf(id, acct, user, prd, flv, siz, notes) ==
  [idCart |-> id, idAccount |-> acct, idUser |-> user, idProduct |-> prd,
   idFlavor |-> flv, idSize |-> siz, quantity |-> 2,
   unitPrice |-> InitialProduct[prd].basePrice + InitialSize[<<acct, siz>>].priceModifier,
   totalPrice |-> 2 * (InitialProduct[prd].basePrice
                         + InitialSize[<<acct, siz>>].priceModifier),
   notes |-> notes]

\* the line of account 1, user 1, product 1, flavor 1, size 1, and lines that
\* differ from it in the user, the size, the flavor, the product, the tenant
FrameLines ==
  { EarlierLine,
    LineOf(2, 1, 2, 1, 1, 1, "n2"),
    LineOf(3, 1, 1, 1, 1, 2, NullNotes),
    LineOf(4, 1, 1, 1, 2, 1, "n2"),
    LineOf(5, 1, 1, 2, 1, 1, NullNotes),
    LineOf(6, 2, 1, 1, 1, 1, "n2") }

\* requests for the key of the first line (2 or 9 more units), for the keys
\* of the lines of user 2 and of size 2, and for two keys that have no line
FrameParams ==
  { [BaseParams EXCEPT !.quantity = 2, !.notes = "n1"],
    [BaseParams EXCEPT !.quantity = 9],
    [BaseParams EXCEPT !.idUser = 2, !.quantity = 3],
    [BaseParams EXCEPT !.idSize = 2, !.quantity = 3, !.notes = "n1"],
    [BaseParams EXCEPT !.idUser = 3, !.quantity = 3],
    [OtherTenantParams EXCEPT !.quantity = 3] }

FrameInit ==
  /\ product = InitialProduct
  /\ productFlavor = ProductFlavorRows
  /\ productSize = ProductSizeRows
  /\ size = InitialSize
  /\ uniqueKey \in BOOLEAN
  /\ cart = FrameLines
  /\ identity = Cardinality(FrameLines) + 1
  /\ pc = [p \in Procs |-> "idle"]
  /\ args = [p \in Procs |-> NoArgs]
  /\ basePrice = [p \in Procs |-> NULL]
  /\ priceModifier = [p \in Procs |-> NULL]
  /\ idCart = [p \in Procs |-> NULL]
  /\ existingQuantity = [p \in Procs |-> NULL]
  /\ pending = [p \in Procs |-> NoRow]
  /\ result = [p \in Procs |-> NoResult]
  /\ lineAtStart = [p \in Procs |-> {}]
  /\ touched = [p \in Procs |-> FALSE]
  /\ calls = 0
  /\ confectioner = {}
  /\ category = {}
  /\ recordsets = [p \in Procs |-> <<>>]
  /\ flavor = {}
  /\ review = {}

FrameNext ==
  \/ \E p \in Procs : \E params \in FrameParams : Accepted(p, params)
  \/ \E p \in Procs : ReadPrices(p)
  \/ \E p \in Procs : LookupMissed(p)
  \/ \E p \in Procs : LookupFound(p)
  \/ \E p \in Procs : ThrowQuantityExceedsLimit(p)
  \/ \E p \in Procs : Update(p)
  \/ \E p \in Procs : Insert(p)
  \/ \E p \in Procs : InsertDuplicateKey(p)
  \/ \E p \in Procs : Commit(p)
  \/ \E p \in Procs : StoreFailure(p)
  \/ \E p \in Procs : SelectResult(p)

FrameSpec == FrameInit /\ [][FrameNext]_vars

(***************************************************************************)
(* Properties of what addToCart leaves alone.                              *)
(***************************************************************************)
\* the lines of rows whose key is not the key of the request a
OtherLines(rows, a) == { r \in rows : ~SameKey(r, a) }

\* C26: a successful addToCart for a key changes at most the one line with
\* that key: every line with a different tenant, user, product, flavor or
\* size keeps its quantity, unit price, total price and notes, and no such
\* line is added or removed.
C26_OtherLinesKept ==
  [][/\ cart' # cart => \E p \in Procs : Commit(p)
     /\ \A p \in Procs :
          Commit(p) =>
            /\ OtherLines(cart', args[p]) = OtherLines(cart, args[p])
            /\ Cardinality(cart' \ cart) <= 1
            /\ Cardinality(cart \ cart') <= 1
            /\ \A r \in cart' \ cart : SameKey(r, args[p])]_vars

\* a call has merged into its line, or added it, in a cart that holds lines
\* of five other keys
C26_Witness ==
  \E p, q \in Procs :
    /\ Succeeded(p)
    /\ touched[p]
    /\ idCart[p] = EarlierLine.idCart
    /\ Cardinality(OtherLines(cart, args[p])) >= 5
    /\ Succeeded(q)
    /\ idCart[q] > Cardinality(FrameLines)


(***************************************************************************)
(* Properties of the price bounds of listProducts.                         *)
(***************************************************************************)
\* the response on p is a response of its request with the minimum price left out
AsWithoutMinimum(p) ==
  LET other == productList(ParamsOf([args[p] EXCEPT !.request.minPrice = UndefinedNumber]))
  IN  /\ \E scan \in ScanOrders : result[p].products = ProductsPage(other, scan)
      /\ result[p].totalCount = Pagination(other)[1].totalCount

\* C27: a supplied price bound is applied for every value including 0: with
\* maxPrice = 0 no product with a base price above 0 is returned, and with
\* minPrice = 0 the result is that of the request with no minimum.
C27_ZeroPriceBoundApplied ==
  \A p \in Procs :
    Listed(p) =>
      /\ args[p].request.maxPrice = 0 =>
           \A i \in 1 .. Len(result[p].products) :
             product[result[p].products[i].idProduct].basePrice <= 0
      /\ args[p].request.minPrice = 0 => AsWithoutMinimum(p)

\* the half of C27 about a minimum of 0
C27_ZeroMinimumIsNoMinimum ==
  \A p \in Procs :
    (Listed(p) /\ args[p].request.minPrice = 0) => AsWithoutMinimum(p)

\* C27 for a maximum other than 0: no product above the maximum is returned
C27_PositiveMaximumApplied ==
  \A p \in Procs :
    (Listed(p) /\ args[p].request.maxPrice \notin {UndefinedNumber, 0}) =>
      \A i \in 1 .. Len(result[p].products) :
        product[result[p].products[i].idProduct].basePrice <= args[p].request.maxPrice

====
